---- MODULE Spec2Model ----
(***************************************************************************)
(* A model of the headless-pm coordination backend: the agent directory,   *)
(* the task state machine with its lock, the changelog, the document       *)
(* repository and the mention rows, as implemented by the HTTP handlers    *)
(* under src/src/api and src/src/services.                                 *)
(*                                                                         *)
(* Conventions.  A database table is a function from primary key to row    *)
(* (changelog: a sequence of rows in insertion order; mentions: a set of   *)
(* rows carrying their id).  An absent integer (Python None for an id or a *)
(* timestamp) is 0: primary keys and the clock start at 1, and Python's    *)
(* truth test `if task.locked_by_id:` treats None and 0 alike.  A text is  *)
(* a sequence of tokens (see Text and At); an absent or empty text is <<>>.*)
(***************************************************************************)
EXTENDS Integers, Sequences, FiniteSets, TLC

VARIABLES
    agents,     \* table Agent:    id -> row
    epics,      \* table Epic:     set of ids
    features,   \* table Feature:  id -> row
    tasks,      \* table Task:     id -> row
    changelog,  \* table Changelog: rows in insertion order
    documents,  \* table Document: id -> row
    mentions,   \* table Mention:  set of rows
    nextId,     \* next primary key of each table
    now,        \* the clock read by datetime.utcnow()
    resp,       \* the response of the last completed sequential request
    reqs,       \* the in-flight concurrent requests, by requesting agent
    services,   \* table Service:  service_name -> row
    waits,      \* the in-flight GET /tasks/next requests, by caller
    http,       \* the configured secret and the X-API-Key header the client sends
    checker,    \* the application's lifecycle and its background health checker
    cli         \* one run of the command-line client: arguments, requests, output, exit

vars == <<agents, epics, features, tasks, changelog, documents, mentions,
          nextId, now, resp, reqs, services, waits, http, checker, cli>>

-----------------------------------------------------------------------------
(* Bounds of the model *)

MaxTime == 7
MaxTasks == 2
MaxDocs == 2

\* The longest content create_document accepts, in characters
MaxContentLength == 50000

\* The seconds GET /tasks/next waits when the caller names no timeout
DefaultTimeout == 180

\* The seconds the wait sleeps between two attempts
PollInterval == 90
MaxRounds == 2

-----------------------------------------------------------------------------
(* Enumerations: src/src/models/enums.py *)

TaskStatus ==
    {"created", "under_work", "dev_done", "qa_done", "documentation_done",
     "committed", "evaluation", "approved"}

AgentRole == {"frontend_dev", "backend_dev", "qa", "architect", "pm"}

DifficultyLevel == {"junior", "senior", "principal"}

ConnectionType == {"mcp", "client"}

ServiceStatus == {"up", "down", "starting"}

(* Absent values *)
None == 0
NoText == <<>>

(* Input domains of the requests *)
AgentIds == {"a1", "a2"}
Handles == AgentIds \cup {"zz"}
CallerIds == Handles
\* a registered and an unregistered caller, where the caller's role plays no part
PlainCallerIds == {"a1", "zz"}
RoleInputs == {"backend_dev", "pm"}
LevelInputs == {"junior", "senior"}
StatusInputs == {"created", "under_work", "dev_done"}
FeatureIdInputs == {1, 2}
\* role, level and connection type of the registrations
ProfileInputs ==
    {<<"backend_dev", "senior", "client">>, <<"backend_dev", "junior", "mcp">>,
     <<"pm", "senior", "client">>}
\* target role and difficulty of the created tasks
TaskKindInputs ==
    {<<"backend_dev", "senior">>, <<"backend_dev", "junior">>, <<"pm", "senior">>}

-----------------------------------------------------------------------------
(* Texts *)

Text(s, n) == [k |-> "text", v |-> s, n |-> n]
At(h) == [k |-> "at", v |-> h, n |-> 3]

RECURSIVE StrLen(_)
StrLen(s) == IF s = <<>> THEN 0 ELSE Head(s).n + StrLen(Tail(s))

\* A character that has no UTF-8 encoding (a lone surrogate)
Surrogate == [k |-> "bad", v |-> "", n |-> 1]

\* str.encode('utf-8') succeeds
Encodable(s) == \A i \in 1..Len(s) : s[i].k # "bad"

\* An optional request field: absent, or holding x
Absent == << >>
Some(x) == <<x>>

NotesInputs == {NoText, <<Text("done", 4)>>}
\* Contents of documents: without a handle; with a handle twice and an unregistered
\* one; with two handles; of exactly the longest accepted length; one character
\* longer; with a character that cannot be encoded
DocContentInputs ==
    { <<Text("note", 4)>>,
      <<At("a1"), Text(" see ", 5), At("zz"), At("a1")>>,
      <<At("a2"), At("a1")>>,
      <<Text("long", MaxContentLength - 3), At("a1")>>,
      <<Text("long", MaxContentLength - 2), At("a1")>>,
      <<Surrogate>> }
\* The values of API_KEY in the environment: unset, empty, or a secret
ApiKeyEnv == {Absent, Some(""), Some("k1")}

\* The X-API-Key header of a request: absent, empty, the development key, or a secret
HeaderInputs == {Absent, Some(""), Some("development-key"), Some("k1")}

\* Routes that the routers of the API serve behind the authentication dependency
GuardedRoutes ==
    {"register", "create_task", "lock_task", "create_document", "register_service"}

\* The clients with a GET /tasks/next request
Waiters == {"w1"}

ServiceNames == {"s1", "s2"}

\* The timeout parameter of GET /tasks/next, in seconds
TimeoutInputs == {Absent, Some(0), Some(100)}

TitleInputs == {"t1"}
TitleUpdateInputs == {Absent, Some("t2")}
ContentUpdateInputs == {Absent} \cup {Some(c) : c \in DocContentInputs}

CommentInputs == {<<Text("ok", 2)>>, <<Text("cc", 2), At("a1")>>}

SeqToSet(s) == {s[i] : i \in 1..Len(s)}

-----------------------------------------------------------------------------
(* Responses *)

\* What a request and its response show: the operation, the HTTP status, the id in
\* the path or of the created row, the calling agent, the role and level next-task
\* selection ran for (with the connection type, at registration), the selected
\* task, the length of the content sent, whether content was sent, and the
\* mentioned agent ids.  `fields` overrides the defaults.
ResponseDefaults ==
    [id |-> None, name |-> "", agent_id |-> "", role |-> "", level |-> "",
     connection_type |-> "", next_task |-> None, workflow_status |-> "",
     auto_continue |-> FALSE, session_momentum |-> "", length |-> 0, with_content |-> FALSE, mentions |-> << >>]

Response(op, code, fields) == ([op |-> op, code |-> code] @@ fields) @@ ResponseDefaults

NoResponse == Response("none", 0, << >>)

-----------------------------------------------------------------------------
(* Queries *)

Min(S) == CHOOSE x \in S : \A y \in S : x <= y

\* select(Agent).where(Agent.agent_id == agent_id).first(): the row's id, or None
FindAgentIn(ags, agent_id) ==
    LET rows == {i \in DOMAIN ags : ags[i].agent_id = agent_id}
    IN  IF rows = {} THEN None ELSE Min(rows)

FindAgent(agent_id) == FindAgentIn(agents, agent_id)

RegisteredIds == {agents[i].agent_id : i \in DOMAIN agents}

\* Next-task selection: the oldest task with status created for the role and level
get_next_task_for_agent(role, level, ts) ==
    LET q == {t \in DOMAIN ts : /\ ts[t].status = "created"
                                /\ ts[t].target_role = role
                                /\ ts[t].difficulty = level}
    IN  IF q = {} THEN None
        ELSE CHOOSE t \in q : \A u \in q :
                \/ ts[t].created_at < ts[u].created_at
                \/ ts[t].created_at = ts[u].created_at /\ t <= u

\* The distinct @handles of a text, in order of first appearance
RECURSIVE extract_mentions(_)
extract_mentions(s) ==
    IF s = <<>> THEN <<>>
    ELSE LET init == extract_mentions(SubSeq(s, 1, Len(s) - 1))
             last == s[Len(s)]
         IN  IF last.k = "at" /\ last.v \notin SeqToSet(init)
             THEN Append(init, last.v) ELSE init

\* The handles of a text that are registered agent ids, in order
RegisteredHandles(s) ==
    SelectSeq(extract_mentions(s), LAMBDA h : h \in RegisteredIds)

\* The Mention rows created for a text attached to a document or a task
NewMentions(document_id, task_id, s, created_by) ==
    LET hs == RegisteredHandles(s)
    IN  {[id |-> nextId.mention + i - 1, document_id |-> document_id,
          task_id |-> task_id, mentioned_agent_id |-> hs[i],
          created_by |-> created_by, is_read |-> FALSE, created_at |-> now]
         : i \in 1..Len(hs)}

create_mentions_for_task(task_id, s, created_by) ==
    NewMentions(None, task_id, s, created_by)

create_mentions_for_document(document_id, s, created_by) ==
    NewMentions(document_id, None, s, created_by)

-----------------------------------------------------------------------------
(* Initial states.  The schema is created and the project has its first    *)
(* epic and feature.  InitTeam is the state after a1 and a2 registered at  *)
(* the instants 1 and 2; InitBacklog is the state after a2 then created    *)
(* the first task at the instant 3.                                        *)

\* No request is in flight
NoRow == [exists |-> FALSE, locked_by_id |-> None]

\* The application is serving and its health checker sleeps between two rounds
CheckerServing ==
    [app |-> "serving", running |-> TRUE, pc |-> "sleeping", todo |-> {},
     rounds |-> 0, results |-> << >>]

\* The command-line client was not started
ClientIdle ==
    [pc |-> "idle", argv |-> << >>, sent |-> 0, answer |-> "none", out |-> << >>,
     exit |-> Absent]

\* No GET /tasks/next request is in flight
IdleWaits ==
    [a \in Waiters |->
        [pc |-> "idle", role |-> "", level |-> "", timeout |-> Absent,
         wait_timeout |-> 0, elapsed |-> 0, result |-> None]]

IdleRequests ==
    [a \in CallerIds |-> [pc |-> "idle", task_id |-> None, seen |-> NoRow, code |-> 0]]

\* The agent directory after a1 and a2 registered
TwoAgents ==
    (1 :> [agent_id |-> "a1", role |-> "backend_dev", level |-> "senior",
           connection_type |-> "client", last_seen |-> 1])
    @@ (2 :> [agent_id |-> "a2", role |-> "pm", level |-> "senior",
              connection_type |-> "client", last_seen |-> 2])

\* The note of a creation row: a fixed Chinese text of five characters that reads
\* "task created", written here in pinyin
CreationNote == <<Text("renwu yi chuangjian", 5)>>

\* The task table and the changelog after a2 created the first task
FirstTask ==
    (1 :> [feature_id |-> 1, created_by_id |-> 2, target_role |-> "backend_dev",
           difficulty |-> "senior", status |-> "created", locked_by_id |-> None,
           locked_at |-> None, notes |-> NoText, created_at |-> 3, updated_at |-> 3])

FirstChangelog ==
    <<[task_id |-> 1, old_status |-> "created", new_status |-> "created",
       changed_by |-> "a2", notes |-> CreationNote, changed_at |-> 3]>>

InitStore(directory, backlog, log) ==
    /\ agents = directory
    /\ epics = {1}
    /\ features = (1 :> [epic_id |-> 1])
    /\ tasks = backlog
    /\ changelog = log
    /\ documents = << >>
    /\ mentions = {}
    /\ nextId = [agent |-> Cardinality(DOMAIN directory) + 1,
                 epic |-> 2, feature |-> 2,
                 task |-> Cardinality(DOMAIN backlog) + 1,
                 document |-> 1, mention |-> 1]
    /\ now = 3 + Cardinality(DOMAIN backlog)
    /\ resp = NoResponse
    /\ reqs = IdleRequests
    /\ services = << >>
    /\ waits = IdleWaits
    /\ checker = CheckerServing
    /\ cli = ClientIdle

\* The secret when the environment does not set API_KEY
DefaultApiKey == "development-key"

\* The store with the default secret and a client that sends it
InitWith(directory, backlog, log) ==
    /\ InitStore(directory, backlog, log)
    /\ http = [API_KEY |-> DefaultApiKey, x_api_key |-> Some(DefaultApiKey)]

\* A fresh project: nobody has registered
Init == InitWith(<< >>, << >>, << >>)

\* A project whose two agents have registered
InitTeam == InitWith(TwoAgents, << >>, << >>)

\* A project whose two agents have registered and that holds its first task
InitBacklog == InitWith(TwoAgents, FirstTask, FirstChangelog)

\* The agent directory after a2 alone registered, and the task table and the
\* changelog after a2 then created the first task
Planner ==
    (1 :> [agent_id |-> "a2", role |-> "pm", level |-> "senior",
           connection_type |-> "client", last_seen |-> 1])

PlannedTask == [FirstTask EXCEPT ![1].created_by_id = 1]

\* A project whose planner has registered and created the first task
InitPlanned == InitWith(Planner, PlannedTask, FirstChangelog)

\* The task ids a request may name: every id issued so far and the next, unused one
TaskIdInputs == 1..nextId.task

\* Every request runs at a later instant than the one before it
Tick == now < MaxTime /\ now' = now + 1

-----------------------------------------------------------------------------
(* Agent directory *)

\* A registration that inserts without looking the agent_id up
register_always_inserts(agent_id, role, level, connection_type) ==
    /\ agents' = (nextId.agent :>
                     [agent_id |-> agent_id, role |-> role, level |-> level,
                      connection_type |-> connection_type, last_seen |-> now])
                  @@ agents
    /\ nextId' = [nextId EXCEPT !.agent = @ + 1]

\* register_or_update_agent: upsert by agent_id
register_or_update_agent(agent_id, role, level, connection_type) ==
    LET found == FindAgent(agent_id)
        row == [agent_id |-> agent_id, role |-> role, level |-> level,
                connection_type |-> connection_type, last_seen |-> now]
    IN  IF found # None
        THEN /\ agents' = [agents EXCEPT ![found] = row]
             /\ nextId' = nextId
        ELSE /\ agents' = (nextId.agent :> row) @@ agents
             /\ nextId' = [nextId EXCEPT !.agent = @ + 1]

\* POST /register
RegisterAgent(agent_id, role, level, connection_type) ==
    /\ Tick
    /\ register_or_update_agent(agent_id, role, level, connection_type)
    /\ resp' = Response("register", 200,
                        [id |-> FindAgentIn(agents', agent_id), agent_id |-> agent_id,
                         role |-> role, level |-> level,
                         connection_type |-> connection_type,
                         next_task |-> get_next_task_for_agent(role, level, tasks)])
    /\ UNCHANGED <<epics, features, tasks, changelog, documents, mentions, reqs,
                       services, waits, http,
                   checker, cli>>

\* verify_agent_role: 404 for an unknown agent, 403 for a role outside the set, else 200
verify_agent_role(agent_id, roles) ==
    LET a == FindAgent(agent_id)
    IN  IF a = None THEN 404
        ELSE IF agents[a].role \notin roles THEN 403 ELSE 200

\* DELETE /agents/{agent_id}
DeleteAgent(agent_id, requester_agent_id) ==
    LET auth == verify_agent_role(requester_agent_id, {"pm"})
        target == FindAgent(agent_id)
        code == IF auth # 200 THEN auth ELSE IF target = None THEN 404 ELSE 200
    IN  /\ Tick
        /\ agents' = IF code = 200
                     THEN [i \in DOMAIN agents \ {target} |-> agents[i]]
                     ELSE agents
        /\ resp' = Response("delete_agent", code, [agent_id |-> requester_agent_id])
        /\ UNCHANGED <<epics, features, tasks, changelog, documents, mentions,
                       nextId, reqs, services, waits, http,
                   checker, cli>>

-----------------------------------------------------------------------------
(* Task lifecycle *)

\* create_task without its check of the feature
CreateTaskOutcomeAnyFeature(agent_id, feature_id) ==
    IF FindAgent(agent_id) = None THEN 404 ELSE 200

\* The outcome of create_task's lookups of the creator and the feature
CreateTaskOutcome(agent_id, feature_id) ==
    IF FindAgent(agent_id) = None THEN 404
    ELSE IF feature_id \notin DOMAIN features THEN 404
    ELSE 200

\* create_task
CreateTask(agent_id, feature_id, target_role, difficulty) ==
    LET creator == FindAgent(agent_id)
        code == CreateTaskOutcome(agent_id, feature_id)
        id == nextId.task
        task == [feature_id |-> feature_id, created_by_id |-> creator,
                 target_role |-> target_role, difficulty |-> difficulty,
                 status |-> "created", locked_by_id |-> None, locked_at |-> None,
                 notes |-> NoText, created_at |-> now, updated_at |-> now]
        row == [task_id |-> id, old_status |-> "created", new_status |-> "created",
                changed_by |-> agent_id, notes |-> CreationNote,
                changed_at |-> now]
    IN  /\ Tick
        /\ nextId.task <= MaxTasks
        /\ IF code = 200
           THEN /\ tasks' = (id :> task) @@ tasks
                /\ changelog' = Append(changelog, row)
                /\ nextId' = [nextId EXCEPT !.task = @ + 1]
           ELSE UNCHANGED <<tasks, changelog, nextId>>
        /\ resp' = Response("create_task", code,
                            [id |-> IF code = 200 THEN id ELSE None,
                             agent_id |-> agent_id])
        /\ UNCHANGED <<agents, epics, features, documents, mentions, reqs,
                       services, waits, http,
                   checker, cli>>

\* lock_task without its check of the holder
LockOutcomeIgnoresHolder(exists, locked_by_id, agent_id) ==
    IF ~exists THEN 404
    ELSE IF FindAgent(agent_id) = None THEN 404
    ELSE 200

\* lock_task refusing only when the holder is an agent of the directory
LockOutcomeHolderRegistered(exists, locked_by_id, agent_id) ==
    IF ~exists THEN 404
    ELSE IF locked_by_id \in DOMAIN agents THEN 409
    ELSE IF FindAgent(agent_id) = None THEN 404
    ELSE 200

\* lock_task looking for the agent before it looks at the holder
LockOutcomeAgentFirst(exists, locked_by_id, agent_id) ==
    IF ~exists THEN 404
    ELSE IF FindAgent(agent_id) = None THEN 404
    ELSE IF locked_by_id # None THEN 409
    ELSE 200

\* The outcome of lock_task for the task row it read and the agent
LockOutcome(exists, locked_by_id, agent_id) ==
    IF ~exists THEN 404
    ELSE IF locked_by_id # None THEN 409
    ELSE IF FindAgent(agent_id) = None THEN 404
    ELSE 200

\* lock_task, as one unit of work
LockTask(task_id, agent_id) ==
    LET exists == task_id \in DOMAIN tasks
        code == LockOutcome(exists, IF exists THEN tasks[task_id].locked_by_id ELSE None,
                            agent_id)
    IN  /\ Tick
        /\ tasks' = IF code = 200
                    THEN [tasks EXCEPT ![task_id].locked_by_id = FindAgent(agent_id),
                                       ![task_id].locked_at = now]
                    ELSE tasks
        /\ resp' = Response("lock_task", code, [id |-> task_id, agent_id |-> agent_id])
        /\ UNCHANGED <<agents, epics, features, changelog, documents, mentions,
                       nextId, reqs, services, waits, http,
                   checker, cli>>

\* update_task_status without the release of the lock
UpdatedTaskKeepsLock(task, status, notes) ==
    [task EXCEPT !.status = status,
                 !.updated_at = now,
                 !.notes = IF notes # NoText THEN notes ELSE @]

\* update_task_status releasing the lock when the work is reported done
UpdatedTaskReleasesOnDone(task, status, notes) ==
    [task EXCEPT !.status = status,
                 !.updated_at = now,
                 !.notes = IF notes # NoText THEN notes ELSE @,
                 !.locked_by_id = IF status = "dev_done" THEN None ELSE @,
                 !.locked_at = IF status = "dev_done" THEN None ELSE @]

\* update_task_status releasing the lock on every change of status
UpdatedTaskReleasesAlways(task, status, notes) ==
    [task EXCEPT !.status = status,
                 !.updated_at = now,
                 !.notes = IF notes # NoText THEN notes ELSE @,
                 !.locked_by_id = IF task.status # status THEN None ELSE @,
                 !.locked_at = IF task.status # status THEN None ELSE @]

\* update_task_status leaving a committed task committed
UpdatedTaskNoReopen(task, status, notes) ==
    LET released == task.status = "under_work" /\ status # "under_work"
    IN  [task EXCEPT !.status = IF @ = "committed" THEN @ ELSE status,
                     !.updated_at = now,
                     !.notes = IF notes # NoText THEN notes ELSE @,
                     !.locked_by_id = IF released THEN None ELSE @,
                     !.locked_at = IF released THEN None ELSE @]

\* An update that hands a task nobody holds to its creator when work starts
UpdatedTaskTakesLock(task, status, notes) ==
    LET released == task.status = "under_work" /\ status # "under_work"
        taken == status = "under_work" /\ task.locked_by_id = None
    IN  [task EXCEPT !.status = status,
                     !.updated_at = now,
                     !.notes = IF notes # NoText THEN notes ELSE @,
                     !.locked_by_id = IF released THEN None
                                      ELSE IF taken THEN task.created_by_id ELSE @,
                     !.locked_at = IF released THEN None
                                   ELSE IF taken THEN now ELSE @]

\* The task row written by update_task_status
UpdatedTask(task, status, notes) ==
    LET released == task.status = "under_work" /\ status # "under_work"
    IN  [task EXCEPT !.status = status,
                     !.updated_at = now,
                     !.notes = IF notes # NoText THEN notes ELSE @,
                     !.locked_by_id = IF released THEN None ELSE @,
                     !.locked_at = IF released THEN None ELSE @]

\* A Changelog row whose old status is read after the status was assigned
StatusChangelogReadsLate(task_id, old_status, status, agent_id, notes) ==
    [task_id |-> task_id, old_status |-> status, new_status |-> status,
     changed_by |-> agent_id, notes |-> notes, changed_at |-> now]

\* The Changelog row written by update_task_status
StatusChangelog(task_id, old_status, status, agent_id, notes) ==
    [task_id |-> task_id, old_status |-> old_status, new_status |-> status,
     changed_by |-> agent_id, notes |-> notes, changed_at |-> now]

\* A response that tells the agent to continue whatever was selected
WorkflowHintAlwaysContinue(next_task) ==
    [workflow_status |-> "continue", auto_continue |-> TRUE,
     session_momentum |-> "high"]

\* A response whose momentum stays high when no task was selected
WorkflowHintKeepsMomentum(next_task) ==
    IF next_task # None
    THEN [workflow_status |-> "continue", auto_continue |-> TRUE,
          session_momentum |-> "high"]
    ELSE [workflow_status |-> "no_tasks", auto_continue |-> FALSE,
          session_momentum |-> "high"]

\* The workflow fields of the response of update_task_status
WorkflowHint(next_task) ==
    IF next_task # None
    THEN [workflow_status |-> "continue", auto_continue |-> TRUE,
          session_momentum |-> "high"]
    ELSE [workflow_status |-> "no_tasks", auto_continue |-> FALSE,
          session_momentum |-> "low"]

\* update_task_status
UpdateTaskStatus(task_id, status, notes, agent_id) ==
    LET agent == FindAgent(agent_id)
        code == IF task_id \notin DOMAIN tasks \/ agent = None THEN 404 ELSE 200
        row == StatusChangelog(task_id, tasks[task_id].status, status, agent_id, notes)
        next_task == get_next_task_for_agent(agents[agent].role, agents[agent].level,
                                             tasks')
    IN  /\ Tick
        /\ IF code = 200
           THEN /\ tasks' = [tasks EXCEPT ![task_id] = UpdatedTask(@, status, notes)]
                /\ changelog' = Append(changelog, row)
                /\ resp' = Response("update_task_status", 200,
                                    [id |-> task_id, agent_id |-> agent_id,
                                     role |-> agents[agent].role,
                                     level |-> agents[agent].level,
                                     next_task |-> next_task]
                                    @@ WorkflowHint(next_task))
           ELSE /\ UNCHANGED <<tasks, changelog>>
                /\ resp' = Response("update_task_status", 404,
                                    [id |-> task_id, agent_id |-> agent_id])
        /\ UNCHANGED <<agents, epics, features, documents, mentions, nextId, reqs,
                       services, waits, http,
                   checker, cli>>

\* A comment that also hands the task back
CommentedTaskReleased(task, comment, agent_id) ==
    LET line == <<Text(agent_id, 2), Text(": ", 2)>> \o comment
    IN  [task EXCEPT !.notes = IF @ # NoText
                               THEN @ \o <<Text("\n\n", 2)>> \o line
                               ELSE line,
                     !.updated_at = now,
                     !.locked_by_id = None,
                     !.locked_at = None]

\* The task row written by add_task_comment
CommentedTask(task, comment, agent_id) ==
    LET line == <<Text(agent_id, 2), Text(": ", 2)>> \o comment
    IN  [task EXCEPT !.notes = IF @ # NoText
                               THEN @ \o <<Text("\n\n", 2)>> \o line
                               ELSE line,
                     !.updated_at = now]

\* add_task_comment
AddTaskComment(task_id, comment, agent_id) ==
    LET code == IF task_id \notin DOMAIN tasks THEN 404 ELSE 200
        new == create_mentions_for_task(task_id, comment, agent_id)
    IN  /\ Tick
        /\ IF code = 200
           THEN /\ tasks' = [tasks EXCEPT
                      ![task_id] = CommentedTask(@, comment, agent_id)]
                /\ mentions' = mentions \cup new
                /\ nextId' = [nextId EXCEPT !.mention = @ + Cardinality(new)]
           ELSE UNCHANGED <<tasks, mentions, nextId>>
        /\ resp' = Response("add_task_comment", code,
                            [id |-> task_id, agent_id |-> agent_id])
        /\ UNCHANGED <<agents, epics, features, changelog, documents, reqs,
                       services, waits, http,
                   checker, cli>>

\* delete_task without the verification of the caller's role
DeleteTaskOutcomeAnyCaller(task_id, agent_id) ==
    IF task_id \notin DOMAIN tasks THEN 404 ELSE 200

\* The outcome of delete_task: the caller's role first, then the task
DeleteTaskOutcome(task_id, agent_id) ==
    LET auth == verify_agent_role(agent_id, {"pm"})
    IN  IF auth # 200 THEN auth
        ELSE IF task_id \notin DOMAIN tasks THEN 404 ELSE 200

\* delete_task
DeleteTask(task_id, agent_id) ==
    LET code == DeleteTaskOutcome(task_id, agent_id)
    IN  /\ Tick
        /\ IF code = 200
           THEN /\ tasks' = [t \in DOMAIN tasks \ {task_id} |-> tasks[t]]
                /\ changelog' = SelectSeq(changelog, LAMBDA r : r.task_id # task_id)
                /\ mentions' = {m \in mentions : m.task_id # task_id}
           ELSE UNCHANGED <<tasks, changelog, mentions>>
        /\ resp' = Response("delete_task", code, [id |-> task_id, agent_id |-> agent_id])
        /\ UNCHANGED <<agents, epics, features, documents, nextId, reqs,
                       services, waits, http,
                   checker, cli>>

\* The rows of a log from the latest changed_at to the earliest
RECURSIVE ByChangedAtDesc(_)
ByChangedAtDesc(log) ==
    IF log = << >> THEN << >>
    ELSE LET i == CHOOSE k \in 1..Len(log) :
                     \A j \in 1..Len(log) : log[j].changed_at <= log[k].changed_at
         IN  <<log[i]>> \o ByChangedAtDesc(SubSeq(log, 1, i - 1)
                                           \o SubSeq(log, i + 1, Len(log)))

\* A feed that returns the earliest rows first
get_oldest_changelog(limit, log) ==
    SubSeq(log, 1, IF limit < Len(log) THEN limit ELSE Len(log))

\* get_recent_changelog, on the Changelog table `log`
get_recent_changelog(limit, log) ==
    SubSeq(ByChangedAtDesc(log), 1, IF limit < Len(log) THEN limit ELSE Len(log))

-----------------------------------------------------------------------------
(* A fresh project: agents register, leave and start the backlog *)

Next ==
    \/ \E a \in AgentIds, p \in ProfileInputs : RegisterAgent(a, p[1], p[2], p[3])
    \/ \E a \in AgentIds, q \in AgentIds : DeleteAgent(a, q)
    \/ \E a \in AgentIds, f \in FeatureIdInputs, k \in TaskKindInputs :
          CreateTask(a, f, k[1], k[2])
    \/ \E t \in TaskIdInputs, a \in AgentIds : LockTask(t, a)
    \/ \E t \in TaskIdInputs, s \in StatusInputs, n \in NotesInputs, a \in AgentIds :
          UpdateTaskStatus(t, s, n, a)

Spec == Init /\ [][Next]_vars

-----------------------------------------------------------------------------
(* The task operations of a registered team *)

\* The simulate path with a temporary agent of a fixed level
GetNextTaskSimulateFixedLevel(role, level) ==
    /\ Tick
    /\ resp' = Response("get_next_task", 200,
                        [role |-> role, level |-> level,
                         next_task |-> get_next_task_for_agent(role, "senior", tasks)])
    /\ UNCHANGED <<agents, epics, features, tasks, changelog, documents, mentions,
                   nextId, reqs, services, waits, http,
                   checker, cli>>

\* A simulated selection that reserves the task it returns
GetNextTaskSimulateReserves(role, level) ==
    LET next_task == get_next_task_for_agent(role, level, tasks)
    IN  /\ Tick
        /\ tasks' = IF next_task # None
                    THEN [tasks EXCEPT ![next_task].status = "under_work"]
                    ELSE tasks
        /\ resp' = Response("get_next_task", 200,
                            [role |-> role, level |-> level, next_task |-> next_task])
        /\ UNCHANGED <<agents, epics, features, changelog, documents, mentions,
                       nextId, reqs, services, waits, http, checker, cli>>

\* GET /tasks/next?simulate=true
GetNextTaskSimulate(role, level) ==
    /\ Tick
    /\ resp' = Response("get_next_task", 200,
                        [role |-> role, level |-> level,
                         next_task |-> get_next_task_for_agent(role, level, tasks)])
    /\ UNCHANGED <<agents, epics, features, tasks, changelog, documents, mentions,
                   nextId, reqs, services, waits, http,
                   checker, cli>>

NextTasks ==
    \/ \E a \in PlainCallerIds, f \in FeatureIdInputs, k \in TaskKindInputs :
          CreateTask(a, f, k[1], k[2])
    \/ \E t \in TaskIdInputs, a \in CallerIds : LockTask(t, a)
    \/ \E t \in TaskIdInputs, s \in StatusInputs, n \in NotesInputs, a \in CallerIds :
          UpdateTaskStatus(t, s, n, a)
    \/ \E t \in TaskIdInputs, c \in CommentInputs, a \in PlainCallerIds :
          AddTaskComment(t, c, a)
    \/ \E t \in TaskIdInputs, a \in CallerIds : DeleteTask(t, a)
    \/ \E r \in RoleInputs, l \in LevelInputs : GetNextTaskSimulate(r, l)

SpecTasks == InitBacklog /\ [][NextTasks]_vars

-----------------------------------------------------------------------------
(* A planned project: agents register and work on the backlog *)

NextFlow ==
    \/ \E a \in AgentIds, p \in ProfileInputs : RegisterAgent(a, p[1], p[2], p[3])
    \/ \E a \in AgentIds, k \in TaskKindInputs : CreateTask(a, 1, k[1], k[2])
    \/ \E t \in TaskIdInputs, a \in AgentIds : LockTask(t, a)
    \/ \E t \in TaskIdInputs, st \in StatusInputs, n \in NotesInputs, a \in AgentIds :
          UpdateTaskStatus(t, st, n, a)

SpecFlow == InitPlanned /\ [][NextFlow]_vars

-----------------------------------------------------------------------------
(* Epic and feature hierarchy *)

EpicIdInputs == 1..nextId.epic
FeatureIdsIssued == 1..nextId.feature

\* create_epic
CreateEpic(agent_id) ==
    LET code == verify_agent_role(agent_id, {"pm", "architect"})
        id == nextId.epic
    IN  /\ Tick
        /\ IF code = 200
           THEN /\ epics' = epics \cup {id}
                /\ nextId' = [nextId EXCEPT !.epic = @ + 1]
           ELSE UNCHANGED <<epics, nextId>>
        /\ resp' = Response("create_epic", code,
                            [id |-> IF code = 200 THEN id ELSE None,
                             agent_id |-> agent_id])
        /\ UNCHANGED <<agents, features, tasks, changelog, documents, mentions, reqs,
                       services, waits, http,
                   checker, cli>>

\* create_feature
CreateFeature(agent_id, epic_id) ==
    LET auth == verify_agent_role(agent_id, {"pm", "architect"})
        code == IF auth # 200 THEN auth
                ELSE IF epic_id \notin epics THEN 404 ELSE 200
        id == nextId.feature
    IN  /\ Tick
        /\ IF code = 200
           THEN /\ features' = (id :> [epic_id |-> epic_id]) @@ features
                /\ nextId' = [nextId EXCEPT !.feature = @ + 1]
           ELSE UNCHANGED <<features, nextId>>
        /\ resp' = Response("create_feature", code,
                            [id |-> IF code = 200 THEN id ELSE None,
                             agent_id |-> agent_id])
        /\ UNCHANGED <<agents, epics, tasks, changelog, documents, mentions, reqs,
                       services, waits, http,
                   checker, cli>>

\* The store once the features in `gone` are deleted with their tasks and those
\* tasks' changelog and mention rows
DeleteFeatures(gone) ==
    LET dead == {t \in DOMAIN tasks : tasks[t].feature_id \in gone}
    IN  /\ features' = [f \in DOMAIN features \ gone |-> features[f]]
        /\ tasks' = [t \in DOMAIN tasks \ dead |-> tasks[t]]
        /\ changelog' = SelectSeq(changelog, LAMBDA r : r.task_id \notin dead)
        /\ mentions' = {m \in mentions : m.task_id \notin dead}

\* delete_epic
DeleteEpic(epic_id, agent_id) ==
    LET auth == verify_agent_role(agent_id, {"pm"})
        code == IF auth # 200 THEN auth
                ELSE IF epic_id \notin epics THEN 404 ELSE 200
    IN  /\ Tick
        /\ IF code = 200
           THEN /\ epics' = epics \ {epic_id}
                /\ DeleteFeatures({f \in DOMAIN features :
                                      features[f].epic_id = epic_id})
           ELSE UNCHANGED <<epics, features, tasks, changelog, mentions>>
        /\ resp' = Response("delete_epic", code, [id |-> epic_id, agent_id |-> agent_id])
        /\ UNCHANGED <<agents, documents, nextId, reqs, services, waits, http,
                   checker, cli>>

\* delete_feature
DeleteFeature(feature_id, agent_id) ==
    LET auth == verify_agent_role(agent_id, {"pm"})
        code == IF auth # 200 THEN auth
                ELSE IF feature_id \notin DOMAIN features THEN 404 ELSE 200
    IN  /\ Tick
        /\ IF code = 200
           THEN DeleteFeatures({feature_id})
           ELSE UNCHANGED <<features, tasks, changelog, mentions>>
        /\ resp' = Response("delete_feature", code,
                            [id |-> feature_id, agent_id |-> agent_id])
        /\ UNCHANGED <<agents, epics, documents, nextId, reqs, services, waits, http,
                   checker, cli>>

NextBacklog ==
    \/ \E a \in AgentIds : CreateEpic(a)
    \/ \E a \in AgentIds, e \in EpicIdInputs : CreateFeature(a, e)
    \/ \E e \in EpicIdInputs, a \in AgentIds : DeleteEpic(e, a)
    \/ \E f \in FeatureIdsIssued, a \in AgentIds : DeleteFeature(f, a)
    \/ \E a \in PlainCallerIds, f \in FeatureIdsIssued, k \in TaskKindInputs :
          CreateTask(a, f, k[1], k[2])
    \/ \E t \in TaskIdInputs, a \in AgentIds : DeleteTask(t, a)

SpecBacklog == InitBacklog /\ [][NextBacklog]_vars

-----------------------------------------------------------------------------
(* Document repository and mentions *)

\* The Mention rows in the order of their ids
RECURSIVE SortById(_)
SortById(S) ==
    IF S = {} THEN << >>
    ELSE LET m == CHOOSE x \in S : \A y \in S : x.id <= y.id
         IN  <<m>> \o SortById(S \ {m})

\* A response that lists the author of each Mention row
MentionedAgentsByAuthor(ms) == [i \in 1..Len(ms) |-> ms[i].created_by]

\* The mentioned agent ids of a sequence of Mention rows
MentionedAgents(ms) == [i \in 1..Len(ms) |-> ms[i].mentioned_agent_id]

\* create_document accepting content of any length
DocumentCreateCodeNoLimit(content) ==
    IF ~Encodable(content) THEN 400 ELSE 200

\* The checks of create_document on the content
DocumentCreateCode(content) ==
    IF StrLen(content) > MaxContentLength THEN 400
    ELSE IF ~Encodable(content) THEN 400
    ELSE 200

\* POST /documents
CreateDocument(author_id, title, content) ==
    LET code == DocumentCreateCode(content)
        id == nextId.document
        document == [author_id |-> author_id, title |-> title, content |-> content,
                     created_at |-> now, updated_at |-> now]
        new == create_mentions_for_document(id, content, author_id)
    IN  /\ Tick
        /\ nextId.document <= MaxDocs
        /\ IF code = 200
           THEN /\ documents' = (id :> document) @@ documents
                /\ mentions' = mentions \cup new
                /\ nextId' = [nextId EXCEPT !.document = @ + 1,
                                            !.mention = @ + Cardinality(new)]
           ELSE UNCHANGED <<documents, mentions, nextId>>
        /\ resp' = Response("create_document", code,
                            [id |-> IF code = 200 THEN id ELSE None,
                             agent_id |-> author_id,
                             length |-> StrLen(content), with_content |-> TRUE,
                             mentions |-> IF code = 200
                                          THEN MentionedAgents(SortById(new))
                                          ELSE << >>])
        /\ UNCHANGED <<agents, epics, features, tasks, changelog, reqs,
                       services, waits, http,
                   checker, cli>>

\* An update of a document that deletes no mention
KeptMentions(document_id) == mentions

\* The Mention rows left once those of a document are deleted
OtherMentions(document_id) == {m \in mentions : m.document_id # document_id}

\* PUT /documents/{document_id}
UpdateDocument(document_id, title, content) ==
    LET code == IF document_id \in DOMAIN documents THEN 200 ELSE 404
        document == documents[document_id]
        new == create_mentions_for_document(document_id, content[1],
                                            document.author_id)
    IN  /\ Tick
        /\ IF code = 200
           THEN /\ documents' =
                     [documents EXCEPT
                        ![document_id].title = IF title # Absent THEN title[1] ELSE @,
                        ![document_id].content =
                            IF content # Absent THEN content[1] ELSE @,
                        ![document_id].updated_at = now]
                /\ IF content # Absent
                   THEN /\ mentions' = OtherMentions(document_id) \cup new
                        /\ nextId' = [nextId EXCEPT !.mention = @ + Cardinality(new)]
                   ELSE UNCHANGED <<mentions, nextId>>
           ELSE UNCHANGED <<documents, mentions, nextId>>
        /\ resp' = Response("update_document", code,
                            [id |-> document_id,
                             length |-> IF content # Absent
                                        THEN StrLen(content[1]) ELSE 0,
                             with_content |-> content # Absent,
                             mentions |->
                                IF code = 200
                                THEN MentionedAgents(SortById(
                                        {m \in mentions' :
                                            m.document_id = document_id}))
                                ELSE << >>])
        /\ UNCHANGED <<agents, epics, features, tasks, changelog, reqs,
                       services, waits, http,
                   checker, cli>>

\* DELETE /documents/{document_id}
DeleteDocument(document_id) ==
    LET code == IF document_id \in DOMAIN documents THEN 200 ELSE 404
    IN  /\ Tick
        /\ IF code = 200
           THEN /\ documents' = [d \in DOMAIN documents \ {document_id} |->
                                   documents[d]]
                /\ mentions' = OtherMentions(document_id)
           ELSE UNCHANGED <<documents, mentions>>
        /\ resp' = Response("delete_document", code, [id |-> document_id])
        /\ UNCHANGED <<agents, epics, features, tasks, changelog, nextId, reqs,
                       services, waits, http,
                   checker, cli>>

\* mark_mention_read without its check of the mentioned agent
MarkReadOutcomeForAnyone(found, agent_id) ==
    IF found = {} THEN 404 ELSE 200

\* The outcome of mark_mention_read for the rows found under the id
MarkReadOutcome(found, agent_id) ==
    IF found = {} THEN 404
    ELSE IF \E m \in found : m.mentioned_agent_id # agent_id THEN 403
    ELSE 200

\* PUT /mentions/{mention_id}/read
MarkMentionRead(mention_id, agent_id) ==
    LET found == {m \in mentions : m.id = mention_id}
        code == MarkReadOutcome(found, agent_id)
    IN  /\ Tick
        /\ mentions' = IF code = 200
                       THEN {IF m.id = mention_id THEN [m EXCEPT !.is_read = TRUE]
                             ELSE m : m \in mentions}
                       ELSE mentions
        /\ resp' = Response("mark_mention_read", code,
                            [id |-> mention_id, agent_id |-> agent_id])
        /\ UNCHANGED <<agents, epics, features, tasks, changelog, documents,
                       nextId, reqs, services, waits, http,
                   checker, cli>>

DocumentIdInputs == 1..nextId.document
MentionIdInputs == 1..nextId.mention

NextDocs ==
    \/ \E a \in PlainCallerIds, t \in TitleInputs, c \in DocContentInputs :
          CreateDocument(a, t, c)
    \/ \E d \in DocumentIdInputs, t \in TitleUpdateInputs, c \in ContentUpdateInputs :
          UpdateDocument(d, t, c)
    \/ \E d \in DocumentIdInputs : DeleteDocument(d)
    \/ \E m \in MentionIdInputs, a \in AgentIds : MarkMentionRead(m, a)
    \/ \E a, r \in AgentIds : DeleteAgent(a, r)

SpecDocs == InitBacklog /\ [][NextDocs]_vars

-----------------------------------------------------------------------------
(* Service registry.  A new Service row takes the instant of its insertion as
   updated_at. *)

\* A registration that leaves an existing service to its owner
RegisterServiceKeepsOwner(service_name, agent_id, status) ==
    /\ Tick
    /\ services' =
          IF service_name \in DOMAIN services
          THEN [services EXCEPT ![service_name].status = status,
                                ![service_name].last_heartbeat = now,
                                ![service_name].updated_at = now]
          ELSE (service_name :> [owner_agent_id |-> agent_id, status |-> status,
                                 last_heartbeat |-> now, updated_at |-> now])
               @@ services
    /\ resp' = Response("register_service", 200,
                        [name |-> service_name, agent_id |-> agent_id])
    /\ UNCHANGED <<agents, epics, features, tasks, changelog, documents, mentions,
                   nextId, reqs, waits, http,
                   checker, cli>>

\* POST /services/register
RegisterService(service_name, agent_id, status) ==
    /\ Tick
    /\ services' =
          IF service_name \in DOMAIN services
          THEN [services EXCEPT ![service_name].owner_agent_id = agent_id,
                                ![service_name].status = status,
                                ![service_name].last_heartbeat = now,
                                ![service_name].updated_at = now]
          ELSE (service_name :> [owner_agent_id |-> agent_id, status |-> status,
                                 last_heartbeat |-> now, updated_at |-> now])
               @@ services
    /\ resp' = Response("register_service", 200,
                        [name |-> service_name, agent_id |-> agent_id])
    /\ UNCHANGED <<agents, epics, features, tasks, changelog, documents, mentions,
                   nextId, reqs, waits, http,
                   checker, cli>>

\* A heartbeat that leaves the status as it was
HeartbeatKeepsStatus(service) ==
    [service EXCEPT !.last_heartbeat = now, !.updated_at = now]

\* The Service row after its owner's heartbeat
Heartbeat(service) ==
    [service EXCEPT !.last_heartbeat = now,
                    !.updated_at = now,
                    !.status = IF @ # "up" THEN "up" ELSE @]

\* A lookup of the service without the ownership check
OwnerOutcomeAnyAgent(service_name, agent_id) ==
    IF service_name \notin DOMAIN services THEN 404 ELSE 200

\* The outcome of the lookup and the ownership check of a service
OwnerOutcome(service_name, agent_id) ==
    IF service_name \notin DOMAIN services THEN 404
    ELSE IF services[service_name].owner_agent_id # agent_id THEN 403
    ELSE 200

\* POST /services/{service_name}/heartbeat
ServiceHeartbeat(service_name, agent_id) ==
    LET code == OwnerOutcome(service_name, agent_id)
    IN  /\ Tick
        /\ services' = IF code = 200
                       THEN [services EXCEPT ![service_name] = Heartbeat(@)]
                       ELSE services
        /\ resp' = Response("service_heartbeat", code,
                            [name |-> service_name, agent_id |-> agent_id])
        /\ UNCHANGED <<agents, epics, features, tasks, changelog, documents,
                       mentions, nextId, reqs, waits, http,
                   checker, cli>>

\* DELETE /services/{service_name}
UnregisterService(service_name, agent_id) ==
    LET code == OwnerOutcome(service_name, agent_id)
    IN  /\ Tick
        /\ services' = IF code = 200
                       THEN [n \in DOMAIN services \ {service_name} |-> services[n]]
                       ELSE services
        /\ resp' = Response("unregister_service", code,
                            [name |-> service_name, agent_id |-> agent_id])
        /\ UNCHANGED <<agents, epics, features, tasks, changelog, documents,
                       mentions, nextId, reqs, waits, http,
                   checker, cli>>

NextServices ==
    \/ \E n \in ServiceNames, a \in PlainCallerIds, st \in ServiceStatus :
          RegisterService(n, a, st)
    \/ \E n \in ServiceNames, a \in PlainCallerIds : ServiceHeartbeat(n, a)
    \/ \E n \in ServiceNames, a \in PlainCallerIds : UnregisterService(n, a)

SpecServices == InitBacklog /\ [][NextServices]_vars

-----------------------------------------------------------------------------
(* register_service under concurrency.  Each request has a session of its own:
   it looks the name up, and what it then does (an update of the row it found,
   or an insertion) reaches the database with its commit, after the commits of
   the requests that were faster.  service_name is unique in the table, so the
   insertion of a name another request has inserted meanwhile fails at the
   commit, and the handler, which catches nothing, answers 500. *)

\* register_service up to its lookup of the name
RegisterLookup(agent_id, service_name, status) ==
    /\ reqs[agent_id].pc \in {"idle", "done"}
    /\ reqs' = [reqs EXCEPT ![agent_id] =
                  [pc |-> "looked_up", task_id |-> None, code |-> 0,
                   seen |-> [exists |-> service_name \in DOMAIN services,
                             locked_by_id |-> None],
                   service_name |-> service_name, status |-> status]]
    /\ UNCHANGED <<agents, epics, features, tasks, changelog, documents, mentions,
                   nextId, now, resp, services, waits, http, checker, cli>>

\* The outcome of the commit of register_service: the insertion of a name that
\* is in the table by now violates the unique constraint
RegisterCommitOutcome(found, service_name) ==
    IF ~found /\ service_name \in DOMAIN services THEN 500 ELSE 200

\* register_service from the branch on the row it found to its commit and response
RegisterCommit(agent_id) ==
    LET r == reqs[agent_id]
        n == r.service_name
        code == RegisterCommitOutcome(r.seen.exists, n)
    IN  /\ r.pc = "looked_up"
        /\ Tick
        /\ services' =
              IF code # 200 THEN services
              ELSE IF r.seen.exists
              THEN [services EXCEPT ![n].owner_agent_id = agent_id,
                                    ![n].status = r.status,
                                    ![n].last_heartbeat = now,
                                    ![n].updated_at = now]
              ELSE (n :> [owner_agent_id |-> agent_id, status |-> r.status,
                          last_heartbeat |-> now, updated_at |-> now])
                   @@ services
        /\ reqs' = [reqs EXCEPT ![agent_id].pc = "done", ![agent_id].code = code]
        /\ resp' = Response("register_service", code,
                            [name |-> n, agent_id |-> agent_id])
        /\ UNCHANGED <<agents, epics, features, tasks, changelog, documents,
                       mentions, nextId, waits, http, checker, cli>>

NextRegistry ==
    \/ \E a \in AgentIds, n \in ServiceNames, st \in ServiceStatus :
          RegisterLookup(a, n, st)
    \/ \E a \in AgentIds : RegisterCommit(a)

SpecRegistry == InitBacklog /\ [][NextRegistry]_vars

-----------------------------------------------------------------------------
(* update_task_status under concurrency.  The request reads the task into its
   session, assigns the attributes of that object and commits; nothing compares
   the row in the database with the one that was read.  The commit writes the
   columns whose attribute has a value other than the one that was read, and the
   Changelog row is built from the status that was read. *)

\* update_task_status up to its reads of the task and of the agent; a missing
\* task or agent ends the request with 404
UpdateRead(agent_id, task_id, status) ==
    LET found == task_id \in DOMAIN tasks /\ FindAgent(agent_id) # None
    IN  /\ reqs[agent_id].pc \in {"idle", "done"}
        /\ reqs' = [reqs EXCEPT ![agent_id] =
                      IF found
                      THEN [pc |-> "task_read", task_id |-> task_id, code |-> 0,
                            seen |-> [exists |-> TRUE,
                                      locked_by_id |-> tasks[task_id].locked_by_id,
                                      status |-> tasks[task_id].status],
                            status |-> status]
                      ELSE [pc |-> "done", task_id |-> task_id, code |-> 404,
                            seen |-> NoRow, status |-> status]]
        /\ UNCHANGED <<agents, epics, features, tasks, changelog, documents,
                       mentions, nextId, now, resp, services, waits, http, checker,
                       cli>>

\* The row of the database after the commit of an update that read `seen`
CommittedTask(task, seen, status) ==
    LET released == seen.status = "under_work" /\ status # "under_work"
        unlocked == released /\ seen.locked_by_id # None
    IN  [task EXCEPT !.status = IF status # seen.status THEN status ELSE @,
                     !.updated_at = now,
                     !.locked_by_id = IF unlocked THEN None ELSE @,
                     !.locked_at = IF unlocked THEN None ELSE @]

\* update_task_status from its assignments to its commit and response
UpdateCommit(agent_id) ==
    LET r == reqs[agent_id]
        agent == FindAgent(agent_id)
        row == StatusChangelog(r.task_id, r.seen.status, r.status, agent_id, NoText)
        next_task == get_next_task_for_agent(agents[agent].role, agents[agent].level,
                                             tasks')
    IN  /\ r.pc = "task_read"
        /\ Tick
        /\ tasks' = [tasks EXCEPT ![r.task_id] = CommittedTask(@, r.seen, r.status)]
        /\ changelog' = Append(changelog, row)
        /\ reqs' = [reqs EXCEPT ![agent_id].pc = "done", ![agent_id].code = 200]
        /\ resp' = Response("update_task_status", 200,
                            [id |-> r.task_id, agent_id |-> agent_id,
                             role |-> agents[agent].role,
                             level |-> agents[agent].level,
                             next_task |-> next_task]
                            @@ WorkflowHint(next_task))
        /\ UNCHANGED <<agents, epics, features, documents, mentions, nextId,
                       services, waits, http, checker, cli>>

NextUpdates ==
    \/ \E a \in AgentIds, t \in TaskIdInputs, st \in StatusInputs :
          UpdateRead(a, t, st)
    \/ \E a \in AgentIds : UpdateCommit(a)
    \/ \E t \in TaskIdInputs, a \in AgentIds : LockTask(t, a)

SpecUpdates == InitBacklog /\ [][NextUpdates]_vars

-----------------------------------------------------------------------------
(* GET /tasks/next without simulate.  The request waits in wait_for_next_task:
   it attempts the selection on a session of its own, returns the task found,
   returns nothing once the timeout has elapsed, and otherwise sleeps and
   attempts again, while other requests are served. *)

\* A wait that ignores the caller's timeout
WaitTimeoutAlwaysDefault(timeout) == DefaultTimeout

\* The timeout handed to wait_for_next_task
WaitTimeout(timeout) == IF timeout # Absent THEN timeout[1] ELSE DefaultTimeout

\* get_next_task up to its call of wait_for_next_task
BeginWait(a, role, level, timeout) ==
    /\ waits[a].pc # "polling"
    /\ waits' = [waits EXCEPT ![a] =
                   [pc |-> "polling", role |-> role, level |-> level,
                    timeout |-> timeout, wait_timeout |-> WaitTimeout(timeout),
                    elapsed |-> 0, result |-> None]]
    /\ UNCHANGED <<agents, epics, features, tasks, changelog, documents, mentions,
                   nextId, now, resp, reqs, services, http,
                   checker, cli>>

\* One attempt of wait_for_next_task, with the sleep that follows a failed one
Poll(a) ==
    LET w == waits[a]
        found == get_next_task_for_agent(w.role, w.level, tasks)
    IN  /\ w.pc = "polling"
        /\ waits' = [waits EXCEPT ![a] =
                       IF found # None
                       THEN [w EXCEPT !.pc = "done", !.result = found]
                       ELSE IF w.elapsed >= w.wait_timeout
                       THEN [w EXCEPT !.pc = "done", !.result = None]
                       ELSE [w EXCEPT !.elapsed = @ + PollInterval]]
        /\ UNCHANGED <<agents, epics, features, tasks, changelog, documents,
                       mentions, nextId, now, resp, reqs, services, http,
                   checker, cli>>

NextWait ==
    \/ \E a \in Waiters, r \in RoleInputs, l \in LevelInputs,
          t \in TimeoutInputs : BeginWait(a, r, l, t)
    \/ \E a \in Waiters : Poll(a)
    \/ \E r \in RoleInputs, l \in LevelInputs : GetNextTaskSimulate(r, l)
    \/ \E a \in PlainCallerIds, k \in TaskKindInputs : CreateTask(a, 1, k[1], k[2])
    \/ \E t \in TaskIdInputs, st \in StatusInputs :
          UpdateTaskStatus(t, st, NoText, "a1")

SpecWait == InitBacklog /\ [][NextWait]_vars

\* Agents register, ask for their next task in both ways, lock and update
NextSelect ==
    \/ \E a \in AgentIds, p \in ProfileInputs : RegisterAgent(a, p[1], p[2], p[3])
    \/ \E r \in RoleInputs, l \in LevelInputs : GetNextTaskSimulate(r, l)
    \/ \E a \in Waiters, r \in RoleInputs, l \in LevelInputs :
          BeginWait(a, r, l, Absent)
    \/ \E a \in Waiters : Poll(a)
    \/ \E t \in TaskIdInputs, a \in AgentIds : LockTask(t, a)
    \/ \E t \in TaskIdInputs, st \in StatusInputs, a \in AgentIds :
          UpdateTaskStatus(t, st, NoText, a)

SpecSelect == InitBacklog /\ [][NextSelect]_vars

\* The server keeps running every request it has accepted
SpecWaitFair == SpecWait /\ \A a \in Waiters : WF_vars(Poll(a))

-----------------------------------------------------------------------------
(* Authentication.  The routers of the API run verify_api_key before every
   handler; the application serves its documentation pages itself, without
   the dependency.  A client sends the same header with every request until
   it is configured with another. *)

\* os.getenv("API_KEY", "development-key")
getenv(value) == IF value # Absent THEN value[1] ELSE DefaultApiKey

\* An authentication that accepts a request without the header
verify_api_key_optional(x_api_key) ==
    IF x_api_key # Absent /\ x_api_key[1] # http.API_KEY THEN 401 ELSE 200

\* verify_api_key: 401 when it raises, 200 when it returns the key
verify_api_key(x_api_key) ==
    IF x_api_key = Absent \/ x_api_key[1] = "" \/ x_api_key[1] # http.API_KEY
    THEN 401 ELSE 200

\* The server starts with the secret of its environment
InitAuth ==
    /\ InitStore(TwoAgents, FirstTask, FirstChangelog)
    /\ \E e \in ApiKeyEnv, h \in HeaderInputs :
          http = [API_KEY |-> getenv(e), x_api_key |-> h]

\* The client is given another key
Configure(x_api_key) ==
    /\ http' = [http EXCEPT !.x_api_key = x_api_key]
    /\ UNCHANGED <<agents, epics, features, tasks, changelog, documents, mentions,
                   nextId, now, resp, reqs, services, waits, checker, cli>>

\* A request to a guarded route that verify_api_key refuses
Unauthorized(route) ==
    /\ verify_api_key(http.x_api_key) = 401
    /\ Tick
    /\ resp' = Response(route, 401, << >>)
    /\ UNCHANGED <<agents, epics, features, tasks, changelog, documents, mentions,
                   nextId, reqs, services, waits, http,
                   checker, cli>>

\* A request to a guarded route that verify_api_key lets through to its handler
Authorized ==
    /\ verify_api_key(http.x_api_key) = 200
    /\ \/ \E p \in ProfileInputs : RegisterAgent("a1", p[1], p[2], p[3])
       \/ \E k \in TaskKindInputs : CreateTask("a1", 1, k[1], k[2])
       \/ \E t \in TaskIdInputs : LockTask(t, "a1")
       \/ \E c \in DocContentInputs : CreateDocument("a1", "t1", c)
       \/ \E st \in ServiceStatus : RegisterService("s1", "a1", st)

\* GET /api/v1/docs and GET /api/v1/redoc
ServeDocs ==
    /\ Tick
    /\ resp' = Response("docs", 200, << >>)
    /\ UNCHANGED <<agents, epics, features, tasks, changelog, documents, mentions,
                   nextId, reqs, services, waits, http,
                   checker, cli>>

NextAuth ==
    \/ \E h \in HeaderInputs : Configure(h)
    \/ \E r \in GuardedRoutes : Unauthorized(r)
    \/ Authorized
    \/ ServeDocs

SpecAuth == InitAuth /\ [][NextAuth]_vars

-----------------------------------------------------------------------------
(* The whole API, one request at a time *)

NextApi ==
    \/ \E p \in ProfileInputs : RegisterAgent("a1", p[1], p[2], p[3])
    \/ \E k \in TaskKindInputs : CreateTask("a1", 1, k[1], k[2])
    \/ \E t \in TaskIdInputs, a \in AgentIds : LockTask(t, a)
    \/ \E t \in TaskIdInputs, st \in StatusInputs, a \in AgentIds :
          UpdateTaskStatus(t, st, NoText, a)
    \/ \E t \in TaskIdInputs, c \in CommentInputs : AddTaskComment(t, c, "a2")
    \/ \E t \in TaskIdInputs : DeleteTask(t, "a2")
    \/ \E r \in RoleInputs : GetNextTaskSimulate(r, "senior")
    \/ \E c \in DocContentInputs : CreateDocument("a1", "t1", c)
    \/ \E d \in DocumentIdInputs, c \in ContentUpdateInputs :
          UpdateDocument(d, Absent, c)
    \/ \E d \in DocumentIdInputs : DeleteDocument(d)
    \/ \E m \in MentionIdInputs, a \in AgentIds : MarkMentionRead(m, a)
    \/ \E st \in ServiceStatus : RegisterService("s1", "a1", st)
    \/ \E a \in AgentIds : ServiceHeartbeat("s1", a)
    \/ \E a \in AgentIds : UnregisterService("s1", a)

SpecApi == InitBacklog /\ [][NextApi]_vars

-----------------------------------------------------------------------------
(* The operator's seed command, which writes its sample data to the tables
   directly.  The rows of one run carry the instant of the run. *)

\* The agents, tasks and documents of the sample data: role and level; target role
\* and difficulty; author and content
SeedAgents ==
    <<[agent_id |-> "architect_principal_001", role |-> "architect",
       level |-> "principal"],
      [agent_id |-> "frontend_dev_senior_001", role |-> "frontend_dev",
       level |-> "senior"],
      [agent_id |-> "backend_dev_senior_001", role |-> "backend_dev",
       level |-> "senior"],
      [agent_id |-> "qa_senior_001", role |-> "qa", level |-> "senior"]>>

SeedTasks ==
    <<[target_role |-> "frontend_dev", difficulty |-> "senior"],
      [target_role |-> "backend_dev", difficulty |-> "senior"],
      [target_role |-> "qa", difficulty |-> "senior"]>>

SeedDocuments ==
    <<[author_id |-> "architect_principal_001",
       content |-> <<Text("standup", 66)>>],
      [author_id |-> "qa_senior_001",
       content |-> <<Text("test environment down ", 10),
                     [k |-> "at", v |-> "backend_dev_senior_001", n |-> 23],
                     Text(" investigate", 5)>>]>>

\* seed
Seed ==
    LET epic == nextId.epic
        feature == nextId.feature
        architect == nextId.agent
    IN  /\ Tick
        /\ epics' = epics \cup {epic}
        /\ features' = (feature :> [epic_id |-> epic]) @@ features
        /\ agents' =
              [i \in nextId.agent .. nextId.agent + Len(SeedAgents) - 1 |->
                 [agent_id |-> SeedAgents[i - nextId.agent + 1].agent_id,
                  role |-> SeedAgents[i - nextId.agent + 1].role,
                  level |-> SeedAgents[i - nextId.agent + 1].level,
                  connection_type |-> "client", last_seen |-> now]]
              @@ agents
        /\ tasks' =
              [t \in nextId.task .. nextId.task + Len(SeedTasks) - 1 |->
                 [feature_id |-> feature, created_by_id |-> architect,
                  target_role |-> SeedTasks[t - nextId.task + 1].target_role,
                  difficulty |-> SeedTasks[t - nextId.task + 1].difficulty,
                  status |-> "created", locked_by_id |-> None, locked_at |-> None,
                  notes |-> NoText, created_at |-> now, updated_at |-> now]]
              @@ tasks
        /\ documents' =
              [d \in nextId.document .. nextId.document + Len(SeedDocuments) - 1 |->
                 [author_id |-> SeedDocuments[d - nextId.document + 1].author_id,
                  title |-> "seed",
                  content |-> SeedDocuments[d - nextId.document + 1].content,
                  created_at |-> now, updated_at |-> now]]
              @@ documents
        /\ nextId' = [nextId EXCEPT !.epic = @ + 1, !.feature = @ + 1,
                                    !.agent = @ + Len(SeedAgents),
                                    !.task = @ + Len(SeedTasks),
                                    !.document = @ + Len(SeedDocuments)]
        /\ resp' = Response("seed", 0, << >>)
        /\ UNCHANGED <<changelog, mentions, reqs, services, waits, http,
                   checker, cli>>

NextSeed ==
    \/ Seed
    \/ \E k \in TaskKindInputs : CreateTask("a1", 1, k[1], k[2])
    \/ \E t \in TaskIdInputs, st \in StatusInputs, n \in NotesInputs, a \in AgentIds :
          UpdateTaskStatus(t, st, n, a)
    \/ \E t \in TaskIdInputs, a \in AgentIds : LockTask(t, a)
    \/ \E t \in TaskIdInputs : DeleteTask(t, "a2")

SpecSeed == InitBacklog /\ [][NextSeed]_vars

-----------------------------------------------------------------------------
(* lock_task requests served at the same time.  The endpoint is a plain function,
   which the server runs on a pool of threads, each request with a session of
   its own: the request reads the task row, and later writes and commits.  No
   task is deleted here, so the row a request writes to is still there. *)

\* lock_task up to its read of the task row (db.get); the request's instant is
\* the one of its commit
LockRead(agent_id, task_id) ==
    /\ reqs[agent_id].pc # "read"
    /\ reqs' = [reqs EXCEPT ![agent_id] =
                  [pc |-> "read", task_id |-> task_id, code |-> 0,
                   seen |-> IF task_id \in DOMAIN tasks
                            THEN [exists |-> TRUE,
                                  locked_by_id |-> tasks[task_id].locked_by_id]
                            ELSE NoRow]]
    /\ UNCHANGED <<agents, epics, features, tasks, changelog, documents, mentions,
                   nextId, now, resp, services, waits, http,
                   checker, cli>>

\* lock_task from its check of the holder it read to its commit and response
LockCommit(agent_id) ==
    LET r == reqs[agent_id]
        code == LockOutcome(r.seen.exists, r.seen.locked_by_id, agent_id)
    IN  /\ r.pc = "read"
        /\ Tick
        /\ tasks' = IF code = 200
                    THEN [tasks EXCEPT ![r.task_id].locked_by_id = FindAgent(agent_id),
                                       ![r.task_id].locked_at = now]
                    ELSE tasks
        /\ reqs' = [reqs EXCEPT ![agent_id].pc = "done", ![agent_id].code = code]
        /\ resp' = Response("lock_task", code,
                            [id |-> r.task_id, agent_id |-> agent_id])
        /\ UNCHANGED <<agents, epics, features, changelog, documents, mentions,
                       nextId, services, waits, http,
                   checker, cli>>

NextLock ==
    \/ \E a \in CallerIds, t \in TaskIdInputs : LockRead(a, t)
    \/ \E a \in CallerIds : LockCommit(a)
    \/ \E a \in PlainCallerIds, k \in TaskKindInputs : CreateTask(a, 1, k[1], k[2])

SpecLock == InitBacklog /\ [][NextLock]_vars

-----------------------------------------------------------------------------
(* create_task and create_document commit twice: the row first, and what belongs
   to it (the creation row of the Changelog, the mentions) with a second commit.
   Each request has a session of its own, so between the two commits the other
   requests read the first, and a second commit that raises leaves the first in
   the database.  In reqs, task_id holds the id of the row the first commit
   stored.  update_task_status commits once. *)

\* create_task up to its first commit: db.add(task); db.commit()
CreateTaskCommitTask(agent_id, feature_id, target_role, difficulty) ==
    LET creator == FindAgent(agent_id)
        code == CreateTaskOutcome(agent_id, feature_id)
        id == nextId.task
        task == [feature_id |-> feature_id, created_by_id |-> creator,
                 target_role |-> target_role, difficulty |-> difficulty,
                 status |-> "created", locked_by_id |-> None, locked_at |-> None,
                 notes |-> NoText, created_at |-> now, updated_at |-> now]
    IN  /\ reqs[agent_id].pc \in {"idle", "done"}
        /\ Tick
        /\ nextId.task <= MaxTasks
        /\ IF code = 200
           THEN /\ tasks' = (id :> task) @@ tasks
                /\ nextId' = [nextId EXCEPT !.task = @ + 1]
                /\ reqs' = [reqs EXCEPT ![agent_id] =
                              [pc |-> "task_committed", task_id |-> id,
                               seen |-> NoRow, code |-> 0]]
                /\ UNCHANGED resp
           ELSE /\ UNCHANGED <<tasks, nextId>>
                /\ reqs' = [reqs EXCEPT ![agent_id] =
                              [pc |-> "done", task_id |-> None,
                               seen |-> NoRow, code |-> code]]
                /\ resp' = Response("create_task", code,
                                    [id |-> None, agent_id |-> agent_id])
        /\ UNCHANGED <<agents, epics, features, changelog, documents, mentions,
                       services, waits, http,
                   checker, cli>>

\* create_task from its creation row to the response: db.add(changelog); db.commit()
CreateTaskCommitChangelog(agent_id) ==
    LET r == reqs[agent_id]
        row == [task_id |-> r.task_id, old_status |-> "created",
                new_status |-> "created", changed_by |-> agent_id,
                notes |-> CreationNote, changed_at |-> now]
    IN  /\ r.pc = "task_committed"
        /\ changelog' = Append(changelog, row)
        /\ reqs' = [reqs EXCEPT ![agent_id].pc = "done", ![agent_id].code = 200]
        /\ resp' = Response("create_task", 200,
                            [id |-> r.task_id, agent_id |-> agent_id])
        /\ UNCHANGED <<agents, epics, features, tasks, documents, mentions, nextId,
                       now, services, waits, http,
                   checker, cli>>

\* create_task when its second commit raises: nothing undoes the first commit,
\* and the request is answered 500
CreateTaskCommitFails(agent_id) ==
    LET r == reqs[agent_id]
    IN  /\ r.pc = "task_committed"
        /\ reqs' = [reqs EXCEPT ![agent_id].pc = "done", ![agent_id].code = 500]
        /\ resp' = Response("create_task", 500,
                            [id |-> r.task_id, agent_id |-> agent_id])
        /\ UNCHANGED <<agents, epics, features, tasks, changelog, documents,
                       mentions, nextId, now, services, waits, http,
                   checker, cli>>

\* POST /documents up to its first commit: db.add(document); db.commit()
CreateDocumentCommitDocument(author_id, title, content) ==
    LET code == DocumentCreateCode(content)
        id == nextId.document
        document == [author_id |-> author_id, title |-> title, content |-> content,
                     created_at |-> now, updated_at |-> now]
    IN  /\ reqs[author_id].pc \in {"idle", "done"}
        /\ Tick
        /\ nextId.document <= MaxDocs
        /\ IF code = 200
           THEN /\ documents' = (id :> document) @@ documents
                /\ nextId' = [nextId EXCEPT !.document = @ + 1]
                /\ reqs' = [reqs EXCEPT ![author_id] =
                              [pc |-> "document_committed", task_id |-> id,
                               seen |-> NoRow, code |-> 0]]
                /\ UNCHANGED resp
           ELSE /\ UNCHANGED <<documents, nextId>>
                /\ reqs' = [reqs EXCEPT ![author_id] =
                              [pc |-> "done", task_id |-> None,
                               seen |-> NoRow, code |-> code]]
                /\ resp' = Response("create_document", code,
                                    [id |-> None, agent_id |-> author_id,
                                     length |-> StrLen(content),
                                     with_content |-> TRUE])
        /\ UNCHANGED <<agents, epics, features, tasks, changelog, mentions,
                       services, waits, http,
                   checker, cli>>

\* POST /documents from its mentions to the response:
\* create_mentions_for_document(...); db.commit()
CreateDocumentCommitMentions(author_id) ==
    LET r == reqs[author_id]
        content == documents[r.task_id].content
        new == create_mentions_for_document(r.task_id, content, author_id)
    IN  /\ r.pc = "document_committed"
        /\ mentions' = mentions \cup new
        /\ nextId' = [nextId EXCEPT !.mention = @ + Cardinality(new)]
        /\ reqs' = [reqs EXCEPT ![author_id].pc = "done", ![author_id].code = 200]
        /\ resp' = Response("create_document", 200,
                            [id |-> r.task_id, agent_id |-> author_id,
                             length |-> StrLen(content), with_content |-> TRUE,
                             mentions |-> MentionedAgents(SortById(new))])
        /\ UNCHANGED <<agents, epics, features, tasks, changelog, documents, now,
                       services, waits, http,
                   checker, cli>>

\* POST /documents when the creation of its mentions or their commit raises: the
\* document stays, and the request is answered 500
CreateDocumentCommitFails(author_id) ==
    LET r == reqs[author_id]
    IN  /\ r.pc = "document_committed"
        /\ reqs' = [reqs EXCEPT ![author_id].pc = "done", ![author_id].code = 500]
        /\ resp' = Response("create_document", 500,
                            [id |-> r.task_id, agent_id |-> author_id])
        /\ UNCHANGED <<agents, epics, features, tasks, changelog, documents,
                       mentions, nextId, now, services, waits, http,
                   checker, cli>>

NextCommits ==
    \/ \E a \in PlainCallerIds, k \in TaskKindInputs :
          CreateTaskCommitTask(a, 1, k[1], k[2])
    \/ \E a \in PlainCallerIds : CreateTaskCommitChangelog(a)
    \/ \E a \in PlainCallerIds : CreateTaskCommitFails(a)
    \/ \E a \in PlainCallerIds, t \in TitleInputs, c \in DocContentInputs :
          CreateDocumentCommitDocument(a, t, c)
    \/ \E a \in PlainCallerIds : CreateDocumentCommitMentions(a)
    \/ \E a \in PlainCallerIds : CreateDocumentCommitFails(a)
    \/ \E t \in TaskIdInputs, st \in StatusInputs, n \in NotesInputs :
          UpdateTaskStatus(t, st, n, "a2")

SpecCommits == InitBacklog /\ [][NextCommits]_vars

-----------------------------------------------------------------------------
(* The team changes while work is under way: agents are deleted while tasks are
   locked, documents written and services registered.  The instants count from
   the first registration. *)

\* The directory after a1 and a2 registered at the instants 0 and 1
TeamAtWork ==
    (1 :> [agent_id |-> "a1", role |-> "backend_dev", level |-> "senior",
           connection_type |-> "client", last_seen |-> 0])
    @@ (2 :> [agent_id |-> "a2", role |-> "pm", level |-> "senior",
              connection_type |-> "client", last_seen |-> 1])

\* The task a2 created at 2, a1 locked at 3 and a1 reported under work at 4
TaskAtWork ==
    (1 :> [feature_id |-> 1, created_by_id |-> 2, target_role |-> "backend_dev",
           difficulty |-> "senior", status |-> "under_work", locked_by_id |-> 1,
           locked_at |-> 3, notes |-> NoText, created_at |-> 2, updated_at |-> 4])

ChangelogAtWork ==
    <<[task_id |-> 1, old_status |-> "created", new_status |-> "created",
       changed_by |-> "a2", notes |-> CreationNote, changed_at |-> 2],
      [task_id |-> 1, old_status |-> "created", new_status |-> "under_work",
       changed_by |-> "a1", notes |-> NoText, changed_at |-> 4]>>

\* A project whose developer has the first task under work
InitAtWork ==
    /\ agents = TeamAtWork
    /\ epics = {1}
    /\ features = (1 :> [epic_id |-> 1])
    /\ tasks = TaskAtWork
    /\ changelog = ChangelogAtWork
    /\ documents = << >>
    /\ mentions = {}
    /\ nextId = [agent |-> 3, epic |-> 2, feature |-> 2, task |-> 2,
                 document |-> 1, mention |-> 1]
    /\ now = 5
    /\ resp = NoResponse
    /\ reqs = IdleRequests
    /\ services = << >>
    /\ waits = IdleWaits
    /\ checker = CheckerServing
    /\ cli = ClientIdle
    /\ http = [API_KEY |-> DefaultApiKey, x_api_key |-> Some(DefaultApiKey)]

InitRoster == InitBacklog \/ InitAtWork

NextRoster ==
    \/ \E a \in AgentIds, q \in AgentIds : DeleteAgent(a, q)
    \/ \E t \in TaskIdInputs, a \in AgentIds : LockTask(t, a)
    \/ \E t \in TaskIdInputs, st \in StatusInputs, a \in AgentIds :
          UpdateTaskStatus(t, st, NoText, a)
    \/ \E c \in DocContentInputs : CreateDocument("a1", "t1", c)
    \/ \E st \in ServiceStatus : RegisterService("s1", "a1", st)

SpecRoster == InitRoster /\ [][NextRoster]_vars

-----------------------------------------------------------------------------
(* One agent with two tasks to pick from *)

\* The directory after a1 registered at the instant 0
OneAgent ==
    (1 :> [agent_id |-> "a1", role |-> "backend_dev", level |-> "senior",
           connection_type |-> "client", last_seen |-> 0])

\* The tasks a1 created at the instants 1 and 2
CreatedTasks ==
    [t \in 1..MaxTasks |->
        [feature_id |-> 1, created_by_id |-> 1, target_role |-> "backend_dev",
         difficulty |-> "senior", status |-> "created", locked_by_id |-> None,
         locked_at |-> None, notes |-> NoText, created_at |-> t, updated_at |-> t]]

CreationRows ==
    [t \in 1..MaxTasks |->
        [task_id |-> t, old_status |-> "created", new_status |-> "created",
         changed_by |-> "a1", notes |-> CreationNote, changed_at |-> t]]

\* A project whose only agent has created its tasks
InitCreated ==
    /\ agents = OneAgent
    /\ epics = {1}
    /\ features = (1 :> [epic_id |-> 1])
    /\ tasks = CreatedTasks
    /\ changelog = CreationRows
    /\ documents = << >>
    /\ mentions = {}
    /\ nextId = [agent |-> 2, epic |-> 2, feature |-> 2, task |-> MaxTasks + 1,
                 document |-> 1, mention |-> 1]
    /\ now = MaxTasks + 1
    /\ resp = NoResponse
    /\ reqs = IdleRequests
    /\ services = << >>
    /\ waits = IdleWaits
    /\ checker = CheckerServing
    /\ cli = ClientIdle
    /\ http = [API_KEY |-> DefaultApiKey, x_api_key |-> Some(DefaultApiKey)]

NextWork ==
    \/ \E t \in TaskIdInputs, a \in AgentIds : LockTask(t, a)
    \/ \E t \in TaskIdInputs, st \in StatusInputs, a \in AgentIds :
          UpdateTaskStatus(t, st, NoText, a)

SpecWork == InitCreated /\ [][NextWork]_vars

-----------------------------------------------------------------------------
(* The application's lifecycle and the health checker.  The checker is a
   background loop of the server process: after every interval it takes the
   registered services and probes them one after the other, and keeps the
   outcome of the last probe of each.  It runs beside the requests, so its steps
   take no instant of their own. *)

\* The application before it started
CheckerDown ==
    [app |-> "down", running |-> FALSE, pc |-> "sleeping", todo |-> {},
     rounds |-> 0, results |-> << >>]

\* The database of a project with its first task, and the server not started
InitHealth ==
    /\ agents = TwoAgents
    /\ epics = {1}
    /\ features = (1 :> [epic_id |-> 1])
    /\ tasks = FirstTask
    /\ changelog = FirstChangelog
    /\ documents = << >>
    /\ mentions = {}
    /\ nextId = [agent |-> 3, epic |-> 2, feature |-> 2, task |-> 2,
                 document |-> 1, mention |-> 1]
    /\ now = 4
    /\ resp = NoResponse
    /\ reqs = IdleRequests
    /\ services = << >>
    /\ waits = IdleWaits
    /\ http = [API_KEY |-> DefaultApiKey, x_api_key |-> Some(DefaultApiKey)]
    /\ checker = CheckerDown
    /\ cli = ClientIdle

\* lifespan, startup: create_db_and_tables()
CreateSchema ==
    /\ checker.app = "down"
    /\ checker' = [checker EXCEPT !.app = "schema"]
    /\ UNCHANGED <<agents, epics, features, tasks, changelog, documents, mentions,
                   nextId, now, resp, reqs, services, waits, http, cli>>

\* A startup that starts the checker without waiting for the schema
StartCheckerBeforeSchema ==
    /\ checker.app \in {"down", "schema"}
    /\ checker' = [checker EXCEPT !.app = "serving", !.running = TRUE,
                                  !.pc = "sleeping"]
    /\ UNCHANGED <<agents, epics, features, tasks, changelog, documents, mentions,
                   nextId, now, resp, reqs, services, waits, http, cli>>

\* lifespan, startup: await health_checker.start(), then the application serves
StartChecker ==
    /\ checker.app = "schema"
    /\ checker' = [checker EXCEPT !.app = "serving", !.running = TRUE,
                                  !.pc = "sleeping"]
    /\ UNCHANGED <<agents, epics, features, tasks, changelog, documents, mentions,
                   nextId, now, resp, reqs, services, waits, http, cli>>

\* lifespan, shutdown: await health_checker.stop()
StopChecker ==
    /\ checker.app = "serving"
    /\ checker' = [checker EXCEPT !.app = "stopped", !.running = FALSE,
                                  !.pc = "sleeping", !.todo = {}]
    /\ UNCHANGED <<agents, epics, features, tasks, changelog, documents, mentions,
                   nextId, now, resp, reqs, services, waits, http, cli>>

\* The interval is over: the checker takes the registered services
BeginRound ==
    /\ checker.running
    /\ checker.pc = "sleeping"
    /\ checker.rounds < MaxRounds
    /\ checker' = [checker EXCEPT !.pc = "probing", !.todo = DOMAIN services]
    /\ UNCHANGED <<agents, epics, features, tasks, changelog, documents, mentions,
                   nextId, now, resp, reqs, services, waits, http, cli>>

\* The probe of one service of the round; it answers (ok) or it fails, and either
\* way the outcome is recorded and the round goes on
Probe(service_name, ok) ==
    /\ checker.running
    /\ checker.pc = "probing"
    /\ service_name \in checker.todo
    /\ checker' = [checker EXCEPT
                     !.todo = @ \ {service_name},
                     !.results = (service_name :>
                                     [last_ping_at |-> now,
                                      last_ping_success |-> ok]) @@ @]
    /\ UNCHANGED <<agents, epics, features, tasks, changelog, documents, mentions,
                   nextId, now, resp, reqs, services, waits, http, cli>>

\* Every service of the round was probed: the checker sleeps for the interval
EndRound ==
    /\ checker.running
    /\ checker.pc = "probing"
    /\ checker.todo = {}
    /\ checker' = [checker EXCEPT !.pc = "sleeping", !.rounds = @ + 1]
    /\ UNCHANGED <<agents, epics, features, tasks, changelog, documents, mentions,
                   nextId, now, resp, reqs, services, waits, http, cli>>

\* The requests to the service registry while the application serves
ServeRegistry ==
    /\ checker.app = "serving"
    /\ \/ \E n \in ServiceNames, a \in AgentIds : RegisterService(n, a, "starting")
       \/ \E n \in ServiceNames, a \in AgentIds : ServiceHeartbeat(n, a)
       \/ \E n \in ServiceNames, a \in AgentIds : UnregisterService(n, a)

NextHealth ==
    \/ CreateSchema
    \/ StartChecker
    \/ StopChecker
    \/ BeginRound
    \/ \E n \in ServiceNames, ok \in BOOLEAN : Probe(n, ok)
    \/ EndRound
    \/ ServeRegistry

SpecHealth == InitHealth /\ [][NextHealth]_vars

\* The status of a task is changed again and again, to any of the eight statuses
NextStatus ==
    \/ \E t \in TaskIdInputs, st \in TaskStatus, a \in PlainCallerIds :
          UpdateTaskStatus(t, st, NoText, a)
    \/ \E t \in TaskIdInputs, a \in PlainCallerIds : LockTask(t, a)

SpecStatus == InitBacklog /\ [][NextStatus]_vars

\* The loop of the checker goes on: the interval ends, a probe is bounded in time,
\* and a round that has probed everything ends
SpecHealthFair ==
    /\ SpecHealth
    /\ WF_vars(BeginRound)
    /\ WF_vars(EndRound)
    /\ \A n \in ServiceNames : WF_vars(\E ok \in BOOLEAN : Probe(n, ok))

-----------------------------------------------------------------------------
(* The command-line client: one run of headless_pm_client.py *)

\* The roles, levels and statuses the parser of the client accepts
RoleChoices == {"frontend_dev", "backend_dev", "qa", "architect", "pm"}

LevelChoices == {"junior", "senior", "principal"}

StatusChoices ==
    {"created", "under_work", "dev_done", "qa_done", "documentation_done",
     "committed"}

\* The actions declared under the command tasks
TaskActions == {"create", "next", "lock", "status", "comment", "delete"}

\* A command line: the command, the action under it and the options of interest,
\* each one absent or given with a value (the empty value included)
Argv(command, action, role, level, status, agent_id, since) ==
    [command |-> command, task_action |-> action, role |-> role, level |-> level,
     status |-> status, agent_id |-> agent_id, since |-> since]

OptionInputs(v) == {Absent, Some(""), Some(v)}

\* The command lines the client is started with
ArgvInputs ==
    {Argv(Absent, Absent, Absent, Absent, Absent, Absent, Absent),
     Argv(Some("tasks"), Absent, Absent, Absent, Absent, Absent, Absent),
     Argv(Some("tasks"), Some("list"), Absent, Absent, Absent, Absent, Absent),
     Argv(Some("changelog"), Absent, Absent, Absent, Absent, Absent, Absent)}
    \cup {Argv(Some("tasks"), Some("next"), r, l, Absent, Absent, Absent) :
             r \in OptionInputs("backend_dev"), l \in OptionInputs("senior")}
    \cup {Argv(Some("tasks"), Some("status"), Absent, Absent, s, g, Absent) :
             s \in OptionInputs("dev_done"), g \in OptionInputs("a1")}
    \cup {Argv(Some("tasks"), Some("lock"), Absent, Absent, Absent, g, Absent) :
             g \in OptionInputs("a1")}
    \cup {Argv(Some("changes"), Absent, Absent, Absent, Absent, g, n) :
             g \in OptionInputs("a1"), n \in OptionInputs("1736359200")}

\* A required option with choices: it must be given, with one of the choices
Chosen(option, choices) == option # Absent /\ option[1] \in choices

\* parser.parse_args(): TRUE when the command line is accepted by the declarations
\* of the parser; a command line it rejects ends the process in parse_args
parse_args(argv) ==
    CASE argv.command = Absent -> TRUE
      [] argv.command = Some("tasks") ->
            CASE argv.task_action = Absent -> TRUE
              [] argv.task_action = Some("next") ->
                    Chosen(argv.role, RoleChoices) /\ Chosen(argv.level, LevelChoices)
              [] argv.task_action = Some("status") ->
                    Chosen(argv.status, StatusChoices) /\ argv.agent_id # Absent
              [] argv.task_action = Some("lock") -> argv.agent_id # Absent
              [] OTHER -> argv.task_action[1] \in TaskActions
      [] argv.command = Some("changes") ->
            argv.since # Absent /\ argv.agent_id # Absent
      [] OTHER -> TRUE

\* not hasattr(args, name) or not args.name
Falsy(option) == option = Absent \/ option = Some("")

\* validate_args: TRUE when it returns, FALSE when it prints a corrective message
\* and exits
validate_args(args) ==
    IF args.command = Some("tasks") /\ args.task_action = Some("list")
    THEN FALSE
    ELSE IF args.command = Some("tasks") /\ args.task_action = Some("next")
    THEN ~Falsy(args.role) /\ ~Falsy(args.level)
    ELSE IF args.command = Some("changes")
    THEN ~Falsy(args.since) /\ ~Falsy(args.agent_id)
    ELSE IF args.command = Some("tasks") /\ args.task_action = Some("status")
    THEN ~Falsy(args.agent_id) /\ ~Falsy(args.status)
    ELSE TRUE

\* The client method main calls for the arguments, "none" when it calls none
\* and prints the help instead
Operation(args) ==
    CASE args.command = Some("tasks") /\ args.task_action = Some("next") ->
            "get_next_task"
      [] args.command = Some("tasks") /\ args.task_action = Some("lock") ->
            "lock_task"
      [] args.command = Some("tasks") /\ args.task_action = Some("status") ->
            "update_task_status"
      [] args.command = Some("changes") -> "get_changes"
      [] args.command = Some("changelog") -> "get_changelog"
      [] OTHER -> "none"

\* What the server, the network or the user does to the request of the client
AnswerInputs == {"json", "empty", "http_error", "transport_error", "interrupt"}

\* The client ended: what it printed and its exit code
Exited(printed, code) ==
    [cli EXCEPT !.pc = "exited", !.out = Append(cli.out, printed), !.exit = Some(code)]

\* A _request that tries once more when the server could not be reached
request_with_retry(answer) ==
    IF answer = "transport_error" /\ cli.sent = 1
    THEN [cli EXCEPT !.sent = 2]
    ELSE IF answer \in {"http_error", "transport_error"}
    THEN [Exited("error", 1) EXCEPT !.answer = answer]
    ELSE IF answer = "interrupt"
    THEN [Exited("interrupted", 130) EXCEPT !.answer = answer]
    ELSE [Exited("result", 0) EXCEPT !.answer = answer]

\* _request after requests.request was called, and the rest of main: a status
\* that is not a success and a failure of the transport print an error and exit
\* with 1; an interrupt exits with 130; the body of a success (or {} for an empty
\* one) is returned and main prints it with format_output
request(answer) ==
    IF answer \in {"http_error", "transport_error"}
    THEN [Exited("error", 1) EXCEPT !.answer = answer]
    ELSE IF answer = "interrupt"
    THEN [Exited("interrupted", 130) EXCEPT !.answer = answer]
    ELSE [Exited("result", 0) EXCEPT !.answer = answer]

ServerUntouched ==
    UNCHANGED <<agents, epics, features, tasks, changelog, documents, mentions,
                nextId, now, resp, reqs, services, waits, http, checker>>

\* main: parser.parse_args(); a rejected command line prints the usage and the
\* error of the parser and exits with 2
ParseArgs ==
    /\ cli.pc = "start"
    /\ cli' = IF parse_args(cli.argv)
              THEN [cli EXCEPT !.pc = "parsed"]
              ELSE Exited("usage", 2)
    /\ ServerUntouched

\* main: without a command the help is printed and the exit code is 1; otherwise
\* validate_args(args, parser)
ValidateArgs ==
    /\ cli.pc = "parsed"
    /\ cli' = IF cli.argv.command = Absent
              THEN Exited("help", 1)
              ELSE IF validate_args(cli.argv)
              THEN [cli EXCEPT !.pc = "validated"]
              ELSE Exited("corrective", 1)
    /\ ServerUntouched

\* main: the dispatch on the command; the client method builds its request and
\* _request calls requests.request once
Dispatch ==
    /\ cli.pc = "validated"
    /\ cli' = IF Operation(cli.argv) = "none"
              THEN Exited("help", 1)
              ELSE [cli EXCEPT !.pc = "requesting", !.sent = cli.sent + 1]
    /\ ServerUntouched

\* The request is over: it was answered, it failed, or the user interrupted it
Answer(answer) ==
    /\ cli.pc = "requesting"
    /\ cli' = request(answer)
    /\ ServerUntouched

\* Somebody starts the client on a command line
StartClient(argv) ==
    /\ cli.pc = "idle"
    /\ cli' = [cli EXCEPT !.pc = "start", !.argv = argv]
    /\ ServerUntouched

NextClient ==
    \/ \E argv \in ArgvInputs : StartClient(argv)
    \/ ParseArgs
    \/ ValidateArgs
    \/ Dispatch
    \/ \E answer \in AnswerInputs : Answer(answer)

SpecClient == InitBacklog /\ [][NextClient]_vars

-----------------------------------------------------------------------------
(* Properties of the task operations *)

\* The last row of the changelog
LastChange == changelog[Len(changelog)]

\* The tasks next-task selection may return for a role and a level
Qualifying(role, level) ==
    {t \in DOMAIN tasks : /\ tasks[t].status = "created"
                          /\ tasks[t].target_role = role
                          /\ tasks[t].difficulty = level}

\* C1: lock_task on a task id that does not exist answers 404; on a task that has a
\* holder it answers 409 and leaves locked_by_id and locked_at as they were; on an
\* unlocked task, for a registered agent, it answers 200, the holder becomes that
\* agent and locked_at the time of the request.
C1_LockTaskContract ==
    [][(resp'.op = "lock_task" /\ now' # now) =>
          LET t == resp'.id
              a == resp'.agent_id
          IN  /\ t \notin DOMAIN tasks => resp'.code = 404 /\ tasks' = tasks
              /\ (t \in DOMAIN tasks /\ tasks[t].locked_by_id # None) =>
                    /\ resp'.code = 409
                    /\ tasks'[t].locked_by_id = tasks[t].locked_by_id
                    /\ tasks'[t].locked_at = tasks[t].locked_at
              /\ (t \in DOMAIN tasks /\ tasks[t].locked_by_id = None
                    /\ a \in RegisteredIds) =>
                    /\ resp'.code = 200
                    /\ tasks'[t].locked_by_id \in DOMAIN agents
                    /\ agents[tasks'[t].locked_by_id].agent_id = a
                    /\ tasks'[t].locked_at = now
      ]_vars

\* C1 witness: a lock request was refused with 409 on a task another agent holds
C1_ConflictAnswered ==
    /\ resp.op = "lock_task"
    /\ resp.code = 409
    /\ resp.id \in DOMAIN tasks
    /\ tasks[resp.id].locked_by_id \in DOMAIN agents
    /\ agents[tasks[resp.id].locked_by_id].agent_id # resp.agent_id
    /\ resp.agent_id \in RegisteredIds

\* C3: update_task_status by a registered agent on an existing task succeeds, and
\* when it takes the task from under_work to another status the task is left
\* without locked_by_id and locked_at, whoever the acting agent is.
C3_LeavingUnderWorkUnlocks ==
    [][(resp'.op = "update_task_status" /\ now' # now) =>
          LET t == resp'.id
          IN  /\ (t \in DOMAIN tasks /\ resp'.agent_id \in RegisteredIds) =>
                    resp'.code = 200
              /\ (resp'.code = 200 /\ tasks[t].status = "under_work"
                    /\ tasks'[t].status # "under_work") =>
                    /\ tasks'[t].locked_by_id = None
                    /\ tasks'[t].locked_at = None
      ]_vars

\* C3 witness: an agent other than the one who took the task under work has moved
\* it from under_work to dev_done
C3_OtherAgentLeftUnderWork ==
    /\ resp.op = "update_task_status"
    /\ resp.code = 200
    /\ Len(changelog) >= 2
    /\ LastChange.old_status = "under_work"
    /\ LastChange.new_status = "dev_done"
    /\ changelog[Len(changelog) - 1].task_id = LastChange.task_id
    /\ changelog[Len(changelog) - 1].new_status = "under_work"
    /\ changelog[Len(changelog) - 1].changed_by # LastChange.changed_by

\* C4 as stated: a task has a holder only while its status is under_work
C4_LockedOnlyUnderWork ==
    \A t \in DOMAIN tasks :
        tasks[t].locked_by_id # None => tasks[t].status = "under_work"

\* C4 as amended: a holder may be set in any status; a task whose status goes
\* from under_work to another status has no holder afterwards, a holder is removed
\* from a remaining task in no other way, and locked_at is set exactly when
\* locked_by_id is.
C4_LockClearedOnLeavingUnderWork ==
    [][\A t \in DOMAIN tasks \cap DOMAIN tasks' :
          /\ (tasks[t].status = "under_work" /\ tasks'[t].status # "under_work") =>
                tasks'[t].locked_by_id = None
          /\ (tasks[t].locked_by_id # None /\ tasks'[t].locked_by_id = None) =>
                (tasks[t].status = "under_work" /\ tasks'[t].status # "under_work")
          /\ (tasks'[t].locked_by_id = None) <=> (tasks'[t].locked_at = None)
      ]_vars

\* C4 witness: a task that was locked while created and moved straight to dev_done
\* still has its holder
C4_LockedOutsideUnderWork ==
    \E t \in DOMAIN tasks :
        /\ tasks[t].locked_by_id # None
        /\ tasks[t].status = "dev_done"
        /\ resp.op = "update_task_status"
        /\ resp.id = t

\* C5: a successful update_task_status appends exactly one Changelog row, for the
\* updated task, from the status before the call to the status after it, by the
\* acting agent; a call answered 404 (task or agent missing) appends no row and
\* changes no task.
C5_OneChangelogRowPerUpdate ==
    [][(resp'.op = "update_task_status" /\ now' # now) =>
          LET t == resp'.id
          IN  /\ resp'.code \in {200, 404}
              /\ resp'.code = 404 <=>
                    (t \notin DOMAIN tasks \/ resp'.agent_id \notin RegisteredIds)
              /\ resp'.code = 404 => changelog' = changelog /\ tasks' = tasks
              /\ resp'.code = 200 =>
                    /\ Len(changelog') = Len(changelog) + 1
                    /\ SubSeq(changelog', 1, Len(changelog)) = changelog
                    /\ changelog'[Len(changelog')].task_id = t
                    /\ changelog'[Len(changelog')].old_status = tasks[t].status
                    /\ changelog'[Len(changelog')].new_status = tasks'[t].status
                    /\ changelog'[Len(changelog')].changed_by = resp'.agent_id
                    /\ \A u \in DOMAIN tasks \ {t} : tasks'[u] = tasks[u]
      ]_vars

\* C5 witness: a status update from created to under_work has been logged
C5_UpdateLogged ==
    /\ resp.op = "update_task_status"
    /\ resp.code = 200
    /\ Len(changelog) >= 1
    /\ LastChange.task_id = resp.id
    /\ LastChange.old_status = "created"
    /\ LastChange.new_status = "under_work"
    /\ LastChange.changed_by = resp.agent_id

\* C6: every next-task selection for a role and a level answers a task with status
\* created, that target role and that difficulty, none of the qualifying tasks
\* being older; it answers no task exactly when none qualifies.
C6_NextTaskIsOldestQualifying ==
    (resp.op \in {"get_next_task", "update_task_status", "register"}
        /\ resp.code = 200) =>
        LET q == Qualifying(resp.role, resp.level)
        IN  /\ resp.next_task = None <=> q = {}
            /\ resp.next_task # None =>
                  /\ resp.next_task \in q
                  /\ \A u \in q :
                        tasks[resp.next_task].created_at <= tasks[u].created_at

\* C6 witness: two tasks qualify and the selection answered the older one
C6_OlderOfTwoSelected ==
    /\ resp.op = "get_next_task"
    /\ resp.next_task # None
    /\ \E u \in Qualifying(resp.role, resp.level) :
          tasks[resp.next_task].created_at < tasks[u].created_at

-----------------------------------------------------------------------------
(* Properties of the agent directory *)

\* C7: the directory never holds two agents with one agent_id; a registration
\* always answers 200, and for an agent_id that is already registered it leaves the
\* set of rows as it was and sets that row's role, level, connection_type and
\* last_seen, every other row unchanged.
C7_RegistrationUpserts ==
    /\ [](\A i, j \in DOMAIN agents :
            agents[i].agent_id = agents[j].agent_id => i = j)
    /\ [][(resp'.op = "register" /\ now' # now) =>
            LET a == resp'.agent_id
            IN  /\ resp'.code = 200
                /\ a \in RegisteredIds =>
                      /\ DOMAIN agents' = DOMAIN agents
                      /\ \A i \in DOMAIN agents :
                            IF agents[i].agent_id = a
                            THEN agents'[i] =
                                    [agent_id |-> a, role |-> resp'.role,
                                     level |-> resp'.level,
                                     connection_type |-> resp'.connection_type,
                                     last_seen |-> now]
                            ELSE agents'[i] = agents[i]
         ]_vars

\* C7 witness: after a second agent registered, the first registered again with
\* another role and its row 1 was updated
C7_RegisteredAgain ==
    /\ resp.op = "register"
    /\ resp.id = 1
    /\ DOMAIN agents = {1, 2}
    /\ agents[1].role = "pm"
    /\ agents[1].last_seen > agents[2].last_seen

-----------------------------------------------------------------------------
(* Properties of lock_task requests served at the same time *)

\* C2: of the lock_task requests on one task that have been answered, at most one
\* was answered 200 (no request here releases a lock).
C2_AtMostOneLockSucceeds ==
    \A t \in DOMAIN tasks :
        Cardinality({a \in CallerIds : /\ reqs[a].pc = "done"
                                       /\ reqs[a].task_id = t
                                       /\ reqs[a].code = 200}) <= 1

-----------------------------------------------------------------------------
(* Properties of the document repository *)

\* The registered agent ids that occur as an @handle in a text
MentionedRegistered(ags, s) ==
    {h \in Handles : /\ \E i \in DOMAIN ags : ags[i].agent_id = h
                     /\ \E i \in 1..Len(s) : s[i] = At(h)}

\* The Mention rows of a document
MentionsOf(ms, document_id) == {m \in ms : m.document_id = document_id}

\* C8: a successful create_document keeps every earlier Mention row and adds, for
\* the new document, exactly one unread row per distinct registered @handle of the
\* content, attributed to the author, and none for any other handle; the mentions
\* of the response are exactly those agent ids, each once.
C8_CreateDocumentMentions ==
    [][(resp'.op = "create_document" /\ resp'.code = 200 /\ now' # now) =>
         LET d == resp'.id
             new == mentions' \ mentions
             expected == MentionedRegistered(agents, documents'[d].content)
         IN  /\ mentions \subseteq mentions'
             /\ \A m \in new : /\ m.document_id = d
                               /\ m.task_id = None
                               /\ m.created_by = resp'.agent_id
                               /\ ~m.is_read
                               /\ m.mentioned_agent_id \in expected
             /\ \A h \in expected :
                   Cardinality({m \in new : m.mentioned_agent_id = h}) = 1
             /\ Len(resp'.mentions) = Cardinality(expected)
             /\ SeqToSet(resp'.mentions) = expected
      ]_vars

\* C8 witness: a document whose content names a1 twice and the unregistered zz was
\* created while a1 was registered, and the response lists a1 alone
C8_DuplicateAndUnknownHandle ==
    /\ resp.op = "create_document"
    /\ resp.code = 200
    /\ resp.mentions = <<"a1">>
    /\ \E i \in 1..Len(documents[resp.id].content) :
          documents[resp.id].content[i] = At("zz")
    /\ Cardinality(MentionsOf(mentions, resp.id)) = 1

\* C9: after a successful update_document that carries content, none of the
\* document's previous Mention rows remains, its rows are one unread row per
\* distinct registered @handle of the new content, and the rows of other documents
\* and of tasks are untouched.
C9_UpdateReplacesMentions ==
    [][(resp'.op = "update_document" /\ resp'.code = 200 /\ resp'.with_content
          /\ now' # now) =>
         LET d == resp'.id
             old == MentionsOf(mentions, d)
             cur == MentionsOf(mentions', d)
             expected == MentionedRegistered(agents, documents'[d].content)
         IN  /\ \A m \in cur : /\ \A o \in old : o.id # m.id
                               /\ ~m.is_read
                               /\ m.mentioned_agent_id \in expected
             /\ \A h \in expected :
                   Cardinality({m \in cur : m.mentioned_agent_id = h}) = 1
             /\ mentions' \ cur = mentions \ old
      ]_vars

\* C9 witness: the only document mentioned a1, and an update whose content
\* mentions a1 again left a new unread row in place of the first
C9_ReadMentionRecreated ==
    /\ resp.op = "update_document"
    /\ resp.code = 200
    /\ resp.with_content
    /\ nextId.document = 2
    /\ nextId.mention = 3
    /\ \E m \in mentions : /\ m.id = 2
                           /\ m.document_id = resp.id
                           /\ m.mentioned_agent_id = "a1"
                           /\ ~m.is_read
    /\ \A m \in mentions : m.id # 1
    /\ \E i \in DOMAIN agents : agents[i].agent_id = "a1"

\* C10: create_document with content longer than 50,000 characters answers 400 and
\* leaves the documents and the mentions as they were.
C10_LongContentRejected ==
    [][(resp'.op = "create_document" /\ resp'.length > 50000 /\ now' # now) =>
         /\ resp'.code = 400
         /\ documents' = documents
         /\ mentions' = mentions
      ]_vars

\* C10 witness: a content of 50,001 characters was answered 400 after a content of
\* exactly 50,000 characters had been stored
C10_OneCharacterTooLong ==
    /\ resp.op = "create_document"
    /\ resp.code = 400
    /\ resp.length = 50001
    /\ \E d \in DOMAIN documents : StrLen(documents[d].content) = 50000

-----------------------------------------------------------------------------
(* Properties of the epic and feature hierarchy *)

\* C11: every feature's epic exists and every task's feature exists; and a
\* successful delete_epic leaves no feature of that epic and no task of any feature
\* the epic had.
C11_HierarchyHasNoOrphans ==
    /\ [](/\ \A f \in DOMAIN features : features[f].epic_id \in epics
          /\ \A t \in DOMAIN tasks : tasks[t].feature_id \in DOMAIN features)
    /\ [][(resp'.op = "delete_epic" /\ resp'.code = 200 /\ now' # now) =>
            LET e == resp'.id
                had == {f \in DOMAIN features : features[f].epic_id = e}
            IN  /\ e \notin epics'
                /\ \A f \in DOMAIN features' : features'[f].epic_id # e
                /\ \A t \in DOMAIN tasks' : tasks'[t].feature_id \notin had
         ]_vars

\* C11 witness: an epic that had a feature holding a task was deleted, while
\* another epic keeps its feature
C11_EpicDeletedWithTask ==
    /\ resp.op = "delete_epic"
    /\ resp.code = 200
    /\ nextId.task >= 2
    /\ tasks = << >>
    /\ DOMAIN features # {}

-----------------------------------------------------------------------------
(* Properties of the service registry *)

\* C12: a heartbeat for a registered service from an agent that is not its owner
\* answers 403 and leaves the service as it was; a heartbeat from its owner answers
\* 200, leaves the status up whatever it was, and sets last_heartbeat to the
\* instant of the request, later than the one stored.
C12_HeartbeatByOwnerOnly ==
    [][(resp'.op = "service_heartbeat" /\ now' # now
          /\ resp'.name \in DOMAIN services) =>
         LET n == resp'.name
         IN  IF services[n].owner_agent_id # resp'.agent_id
             THEN /\ resp'.code = 403
                  /\ services' = services
             ELSE /\ resp'.code = 200
                  /\ services'[n].status = "up"
                  /\ services'[n].last_heartbeat = now
                  /\ services'[n].last_heartbeat > services[n].last_heartbeat
                  /\ services'[n].owner_agent_id = services[n].owner_agent_id
      ]_vars

\* C12 witness: the owner's heartbeat for the only registered service was
\* answered, and the service is up with its heartbeat refreshed
C12_OwnerHeartbeatAnswered ==
    /\ resp.op = "service_heartbeat"
    /\ resp.code = 200
    /\ services[resp.name].status = "up"
    /\ services[resp.name].last_heartbeat = now - 1
    /\ DOMAIN services = {resp.name}
    /\ services[resp.name].owner_agent_id = resp.agent_id

-----------------------------------------------------------------------------
(* Properties of GET /tasks/next *)

\* C13: every waiting GET /tasks/next returns.  An attempt that finds a qualifying
\* task in the store as it is then, whoever committed it and when, returns the
\* oldest such task at once; an attempt returns nothing only when no task qualifies
\* and the caller's timeout (180 s when none is named) has elapsed, within one
\* sleep of it; a waiting request writes nothing.  With simulate the request is
\* answered in its one step with the selection, and no request is left waiting
\* for it.
C13_WaitForNextTaskReturns ==
    /\ \A a \in Waiters : (waits[a].pc = "polling") ~> (waits[a].pc = "done")
    /\ [][\A a \in Waiters :
            LET w == waits[a]
                limit == IF w.timeout # Absent THEN w.timeout[1] ELSE 180
                q == Qualifying(w.role, w.level)
            IN  (w.pc = "polling" /\ waits'[a] # w) =>
                  /\ tasks' = tasks
                  /\ IF q # {}
                     THEN /\ waits'[a].pc = "done"
                          /\ waits'[a].result \in q
                          /\ \A u \in q : tasks[waits'[a].result].created_at
                                            <= tasks[u].created_at
                     ELSE IF w.elapsed >= limit
                     THEN /\ waits'[a].pc = "done"
                          /\ waits'[a].result = None
                          /\ w.elapsed < limit + PollInterval
                     ELSE waits'[a].pc = "polling"
         ]_vars
    /\ [][(resp'.op = "get_next_task" /\ resp' # resp) =>
            /\ waits' = waits
            /\ tasks' = tasks
            /\ LET q == Qualifying(resp'.role, resp'.level)
               IN  IF q = {} THEN resp'.next_task = None ELSE resp'.next_task \in q
         ]_vars

\* C13 witness: a request that found nothing at its first attempt was answered, at
\* a later attempt, the task another request created while it waited
C13_TaskAppearedDuringWait ==
    \E a \in Waiters :
        /\ waits[a].pc = "done"
        /\ waits[a].elapsed > 0
        /\ waits[a].result # None
        /\ waits[a].result \in DOMAIN tasks
        /\ tasks[waits[a].result].created_at >= 4

-----------------------------------------------------------------------------
(* Properties of mentions *)

\* C14: mark_mention_read on an existing mention by an agent other than the
\* mentioned one answers 403 and leaves every mention as it was; by the mentioned
\* agent it answers 200 and leaves that row read and everything else as it was,
\* also when the row was read already; and no step turns a read mention that
\* remains into an unread one.
C14_ReadByMentionedAgentOnly ==
    [][/\ (resp'.op = "mark_mention_read" /\ now' # now
             /\ \E m \in mentions : m.id = resp'.id) =>
            LET m == CHOOSE x \in mentions : x.id = resp'.id
            IN  IF m.mentioned_agent_id # resp'.agent_id
                THEN /\ resp'.code = 403
                     /\ mentions' = mentions
                ELSE /\ resp'.code = 200
                     /\ mentions' = (mentions \ {m}) \cup {[m EXCEPT !.is_read = TRUE]}
                     /\ m.is_read => mentions' = mentions
       /\ \A m \in mentions, k \in mentions' :
             (m.id = k.id /\ m.is_read) => k.is_read
      ]_vars

\* C14 witness: a2, mentioned with a1 in a document, marked its mention read and
\* a1's mention is still unread
C14_OneOfTwoRead ==
    /\ resp.op = "mark_mention_read"
    /\ resp.code = 200
    /\ resp.agent_id = "a2"
    /\ \E m \in mentions : m.id = resp.id /\ m.mentioned_agent_id = "a2" /\ m.is_read
    /\ \E m \in mentions : m.mentioned_agent_id = "a1" /\ ~m.is_read

-----------------------------------------------------------------------------
(* Properties of the workflow from registration to the report of a status *)

\* C15: a registration for which exactly one task qualifies, a task in status
\* created, is answered that task as next_task; a successful update_task_status
\* after which no task qualifies for the calling agent is answered with next_task
\* absent, workflow_status "no_tasks", auto_continue false and session_momentum
\* "low".
C15_RegisterLockReport ==
    [][/\ (resp'.op = "register" /\ now' # now) =>
            \A t \in DOMAIN tasks :
               Qualifying(resp'.role, resp'.level) = {t} =>
                  /\ tasks'[t].status = "created"
                  /\ resp'.next_task = t
       /\ (resp'.op = "update_task_status" /\ resp'.code = 200 /\ now' # now) =>
            LET a == agents[FindAgent(resp'.agent_id)]
            IN  (\A t \in DOMAIN tasks' :
                    ~(/\ tasks'[t].status = "created"
                      /\ tasks'[t].target_role = a.role
                      /\ tasks'[t].difficulty = a.level)) =>
                  /\ resp'.next_task = None
                  /\ resp'.workflow_status = "no_tasks"
                  /\ resp'.auto_continue = FALSE
                  /\ resp'.session_momentum = "low"
      ]_vars

\* C15 witness: a1 registered as a senior backend developer after the first task
\* was created, locked the task and reported it dev_done with notes, and was
\* answered that no task is left
C15_NoTaskLeftAfterReport ==
    /\ resp.op = "update_task_status"
    /\ resp.code = 200
    /\ resp.agent_id = "a1"
    /\ resp.workflow_status = "no_tasks"
    /\ resp.next_task = None
    /\ FindAgent("a1") = 2
    /\ agents[2].last_seen >= tasks[1].created_at
    /\ tasks[1].status = "dev_done"
    /\ tasks[1].locked_by_id = 2
    /\ tasks[1].notes = <<Text("done", 4)>>
    /\ DOMAIN tasks = {1}

-----------------------------------------------------------------------------
(* Properties of the authentication *)

\* The stored entities
Store == <<agents, epics, features, tasks, changelog, documents, mentions, services>>

\* C16, as stated: every request to a route under /api/v1 is answered 401, with
\* the store unchanged, unless its X-API-Key header is present and equal to the
\* secret, and is not answered 401 when it is.
C16_EveryRouteNeedsTheKey ==
    [][now' # now =>
         LET ok == http.x_api_key # Absent /\ http.x_api_key[1] = http.API_KEY
         IN  /\ (resp'.code # 401) <=> ok
             /\ resp'.code = 401 => Store' = Store
      ]_vars

\* C16, amended: every request to a route of the API routers is answered 401,
\* with the store unchanged, unless its X-API-Key header is present, not empty and
\* equal to the secret, and is not answered 401 when it is; the documentation
\* pages under /api/v1 are served whatever the header, and change nothing.
C16_GuardedRoutesNeedTheKey ==
    [][now' # now =>
         LET ok == /\ http.x_api_key # Absent
                   /\ http.x_api_key[1] # ""
                   /\ http.x_api_key[1] = http.API_KEY
         IN  IF resp'.op \in GuardedRoutes
             THEN /\ (resp'.code # 401) <=> ok
                  /\ resp'.code = 401 => Store' = Store
             ELSE /\ resp'.op = "docs"
                  /\ resp'.code = 200
                  /\ Store' = Store
      ]_vars

\* C16 witness: a request with a wrong key was refused after a request with the
\* secret had created a document
C16_RefusedAfterAccepted ==
    /\ resp.code = 401
    /\ resp.op = "create_document"
    /\ http.x_api_key # Absent
    /\ http.x_api_key[1] # http.API_KEY
    /\ http.x_api_key[1] # ""
    /\ DOMAIN documents # {}

-----------------------------------------------------------------------------
(* Properties of the lock over the whole API *)

\* C17: a lock that is held stays with its holder, with its locked_at, through
\* every request, however late, except an update_task_status that moves that task
\* from under_work to another status, which clears it, and the deletion of the
\* task; lock_task changes the holder of the task it names only, and only from
\* none; every other operation leaves the holder of every task as it was.
C17_LockHeldUntilReleased ==
    [][/\ \A t \in DOMAIN tasks :
             tasks[t].locked_by_id # None =>
                \/ /\ t \notin DOMAIN tasks'
                   /\ resp'.op = "delete_task"
                   /\ resp'.id = t
                \/ /\ t \in DOMAIN tasks'
                   /\ tasks'[t].locked_by_id = tasks[t].locked_by_id
                   /\ tasks'[t].locked_at = tasks[t].locked_at
                \/ /\ t \in DOMAIN tasks'
                   /\ resp'.op = "update_task_status"
                   /\ resp'.id = t
                   /\ tasks[t].status = "under_work"
                   /\ tasks'[t].status # "under_work"
                   /\ tasks'[t].locked_by_id = None
       /\ \A t \in DOMAIN tasks \cap DOMAIN tasks' :
             tasks'[t].locked_by_id # tasks[t].locked_by_id =>
                \/ resp'.op = "update_task_status" /\ resp'.id = t
                \/ /\ resp'.op = "lock_task" /\ resp'.id = t /\ resp'.code = 200
                   /\ tasks[t].locked_by_id = None
      ]_vars

\* C17 witness: a task locked two requests earlier is still held, by the same
\* agent, after a heartbeat of a service
C17_LockOutlivesOtherRequests ==
    /\ resp.op = "service_heartbeat"
    /\ resp.code = 200
    /\ \E t \in DOMAIN tasks : /\ tasks[t].locked_by_id = 1
                               /\ tasks[t].locked_at <= now - 3

-----------------------------------------------------------------------------
(* Properties of the changelog *)

\* The Changelog rows of a task, in insertion order
RowsOf(log, t) == SelectSeq(log, LAMBDA r : r.task_id = t)

\* C18, its consequence for a task that was never updated or is new: every task
\* in the store has at least one Changelog row, and the first of its rows is its
\* creation row, old_status and new_status both created.
C18_EveryTaskHasItsCreationRow ==
    \A t \in DOMAIN tasks :
        /\ Len(RowsOf(changelog, t)) >= 1
        /\ RowsOf(changelog, t)[1].old_status = "created"
        /\ RowsOf(changelog, t)[1].new_status = "created"

C20_MultiStepWritesAtomic ==
    /\ \A t \in DOMAIN tasks :
          /\ RowsOf(changelog, t) # << >>
          /\ RowsOf(changelog, t)[1].old_status = "created"
          /\ RowsOf(changelog, t)[1].new_status = "created"
          /\ RowsOf(changelog, t)[Len(RowsOf(changelog, t))].new_status
                = tasks[t].status
    /\ \A d \in DOMAIN documents :
          {m.mentioned_agent_id : m \in MentionsOf(mentions, d)}
             = MentionedRegistered(agents, documents[d].content)
    /\ (resp.op = "create_task" /\ resp.code = 500) => resp.id \notin DOMAIN tasks
    /\ (resp.op = "create_document" /\ resp.code = 500) =>
          resp.id \notin DOMAIN documents

\* C21: every stored document has a content of at most 50,000 characters.
C21_StoredContentWithinLimit ==
    \A d \in DOMAIN documents : StrLen(documents[d].content) <= MaxContentLength

\* a is the beginning of b
StartsWith(b, a) == Len(a) <= Len(b) /\ SubSeq(b, 1, Len(a)) = a

\* C22: no step removes text from the notes of a task: the notes of a task that
\* stays begin with the notes it had before.
C22_NotesOnlyAppended ==
    [][\A t \in DOMAIN tasks \cap DOMAIN tasks' :
          StartsWith(tasks'[t].notes, tasks[t].notes)]_vars

\* C23 as stated: lock_task for an agent that is not registered answers 404 whatever
\* the task, and sets no lock; 409 is answered only when the task exists, the agent
\* is registered and the task has a holder.
C23_UnregisteredAlwaysNotFound ==
    [][(resp'.op = "lock_task" /\ now' # now) =>
          LET t == resp'.id
              a == resp'.agent_id
          IN  /\ a \notin RegisteredIds => resp'.code = 404 /\ tasks' = tasks
              /\ resp'.code = 409 =>
                    /\ t \in DOMAIN tasks
                    /\ a \in RegisteredIds
                    /\ tasks[t].locked_by_id # None
      ]_vars

\* C23: lock_task for an agent that is not registered sets no lock and never
\* answers 200: it answers 404 when the task does not exist or has no holder, and
\* 409 when the task has a holder; 409 is answered exactly when the task exists and
\* has a holder, whoever asks.
C23_UnregisteredNeverLocks ==
    [][(resp'.op = "lock_task" /\ now' # now) =>
          LET t == resp'.id
              a == resp'.agent_id
              held == t \in DOMAIN tasks /\ tasks[t].locked_by_id # None
          IN  /\ a \notin RegisteredIds =>
                    /\ tasks' = tasks
                    /\ resp'.code = IF held THEN 409 ELSE 404
              /\ resp'.code = 409 <=> held
      ]_vars

\* C23 witness: an agent that is not registered asked for a task that a registered
\* agent holds, and was answered 409
C23_UnregisteredGotConflict ==
    /\ resp.op = "lock_task"
    /\ resp.code = 409
    /\ resp.agent_id \notin RegisteredIds
    /\ resp.id \in DOMAIN tasks
    /\ tasks[resp.id].locked_by_id \in DOMAIN agents

-----------------------------------------------------------------------------
(* Properties of delete_task, delete_agent and the lock an agent holds *)

\* C24: a step removes a task only if it is a delete_task answered 200 to a
\* registered pm, and then it removes that task alone; delete_task answers 404 to a
\* caller that is not registered, 403 to a registered caller that is not a pm, 404
\* to a pm for a task id that does not exist, and in these three cases leaves the
\* tasks and the Changelog as they were.
C24_OnlyPmDeletesTasks ==
    [][/\ ~(DOMAIN tasks \subseteq DOMAIN tasks') =>
             /\ resp'.op = "delete_task"
             /\ resp'.code = 200
             /\ \E i \in DOMAIN agents : /\ agents[i].agent_id = resp'.agent_id
                                         /\ agents[i].role = "pm"
             /\ DOMAIN tasks' = DOMAIN tasks \ {resp'.id}
       /\ (resp'.op = "delete_task" /\ now' # now) =>
             LET t == resp'.id
                 a == resp'.agent_id
                 pm == \E i \in DOMAIN agents : /\ agents[i].agent_id = a
                                                /\ agents[i].role = "pm"
             IN  /\ resp'.code = IF a \notin RegisteredIds THEN 404
                                 ELSE IF ~pm THEN 403
                                 ELSE IF t \notin DOMAIN tasks THEN 404
                                 ELSE 200
                 /\ resp'.code # 200 => tasks' = tasks /\ changelog' = changelog
                 /\ resp'.code = 200 => t \notin DOMAIN tasks'
      ]_vars

\* C24 witness: a registered agent that is not a pm asked to delete a task that
\* exists and has Changelog rows, and was answered 403
C24_DeveloperRefused ==
    /\ resp.op = "delete_task"
    /\ resp.code = 403
    /\ resp.agent_id \in RegisteredIds
    /\ resp.id \in DOMAIN tasks
    /\ RowsOf(changelog, resp.id) # << >>

\* The task has a holder that is no agent of the directory
HolderDeleted(t) ==
    tasks[t].locked_by_id # None /\ tasks[t].locked_by_id \notin DOMAIN agents

\* C25: a delete_agent answered 200 removes one Agent row and leaves the other
\* agents, the tasks, the documents, the Changelog, the mentions and the services
\* as they were; and while a task has a holder that was deleted, lock_task on it
\* answers 409 and its holder stays, until an update_task_status takes the task
\* from under_work to another status, which clears the holder.
C25_DeleteAgentLeavesTheRest ==
    [][/\ (resp'.op = "delete_agent" /\ resp'.code = 200 /\ now' # now) =>
             /\ DOMAIN agents' \subseteq DOMAIN agents
             /\ Cardinality(DOMAIN agents') = Cardinality(DOMAIN agents) - 1
             /\ \A i \in DOMAIN agents' : agents'[i] = agents[i]
             /\ tasks' = tasks
             /\ documents' = documents
             /\ changelog' = changelog
             /\ mentions' = mentions
             /\ services' = services
       /\ \A t \in DOMAIN tasks :
             (HolderDeleted(t) /\ now' # now) =>
                /\ t \in DOMAIN tasks'
                /\ (resp'.op = "lock_task" /\ resp'.id = t) => resp'.code = 409
                /\ IF /\ resp'.op = "update_task_status"
                      /\ resp'.code = 200
                      /\ resp'.id = t
                      /\ tasks[t].status = "under_work"
                      /\ tasks'[t].status # "under_work"
                   THEN tasks'[t].locked_by_id = None /\ tasks'[t].locked_at = None
                   ELSE /\ tasks'[t].locked_by_id = tasks[t].locked_by_id
                        /\ tasks'[t].locked_at = tasks[t].locked_at
      ]_vars

\* C25 witness: the holder of a task was deleted, and a registered agent that
\* asked for the task was answered 409
C25_ConflictOnDeletedHolder ==
    /\ resp.op = "lock_task"
    /\ resp.code = 409
    /\ resp.agent_id \in RegisteredIds
    /\ resp.id \in DOMAIN tasks
    /\ HolderDeleted(resp.id)

\* C26: no agent holds two tasks that are both under_work.
C26_OneTaskUnderWorkPerAgent ==
    \A i \in DOMAIN agents :
       Cardinality({t \in DOMAIN tasks : /\ tasks[t].status = "under_work"
                                         /\ tasks[t].locked_by_id = i}) <= 1

-----------------------------------------------------------------------------
(* Properties of the service registry beside the health checker *)

\* C27: a step removes a Service row only if it is an unregister answered 200 to
\* the agent that is the stored owner of that service, and then it removes that row
\* alone; an unregister by another agent answers 403, one of an unknown name 404,
\* and both leave the services as they were.  No other request and no step of the
\* health checker removes a service.
C27_OnlyOwnerUnregisters ==
    [][/\ ~(DOMAIN services \subseteq DOMAIN services') =>
             /\ resp'.op = "unregister_service"
             /\ resp'.code = 200
             /\ now' # now
             /\ resp'.name \in DOMAIN services
             /\ services[resp'.name].owner_agent_id = resp'.agent_id
             /\ DOMAIN services' = DOMAIN services \ {resp'.name}
       /\ (resp'.op = "unregister_service" /\ now' # now) =>
             LET n == resp'.name
                 a == resp'.agent_id
             IN  /\ resp'.code = IF n \notin DOMAIN services THEN 404
                                 ELSE IF services[n].owner_agent_id # a THEN 403
                                 ELSE 200
                 /\ resp'.code # 200 => services' = services
                 /\ resp'.code = 200 => n \notin DOMAIN services'
      ]_vars

\* C27 witness: an agent that is not the owner asked to unregister a service that
\* the health checker has probed, was answered 403, and the service is still there
C27_StrangerRefused ==
    /\ resp.op = "unregister_service"
    /\ resp.code = 403
    /\ resp.name \in DOMAIN services
    /\ services[resp.name].owner_agent_id # resp.agent_id
    /\ resp.name \in DOMAIN checker.results

\* C28: the health checker runs exactly while the application serves, which begins
\* after the schema was created and ends at shutdown; a probe that fails is
\* recorded as a failed outcome of that service and leaves the checker running in
\* the same round with the other services still to probe; every service of a round
\* is probed unless the application shuts down; and after a round the next one
\* begins unless the application shuts down.
C28_CheckerSurvivesFailedProbes ==
    /\ [](checker.running <=> checker.app = "serving")
    /\ [][/\ checker'.app = "serving" /\ checker.app # "serving"
                => checker.app = "schema"
          /\ checker.app = "serving" /\ checker'.app # "serving"
                => checker'.app = "stopped" /\ ~checker'.running
          /\ \A n \in ServiceNames :
                (/\ n \in checker.todo
                 /\ n \notin checker'.todo
                 /\ checker'.running) =>
                   /\ n \in DOMAIN checker'.results
                   /\ checker'.results[n].last_ping_at = now
                   /\ checker'.pc = "probing"
                   /\ checker'.todo = checker.todo \ {n}
                   /\ checker'.rounds = checker.rounds
                   /\ \A m \in DOMAIN checker.results \ {n} :
                         checker'.results[m] = checker.results[m]
         ]_vars
    /\ \A n \in ServiceNames :
          (n \in checker.todo) ~> (n \notin checker.todo)
    /\ \A k \in 0..(MaxRounds - 2) :
          (checker.pc = "probing" /\ checker.rounds = k)
             ~> (~checker.running \/ (checker.pc = "probing" /\ checker.rounds = k + 1))

\* C28 witness: in the second round the probe of one service failed and was
\* recorded as failed, the other service of the round is still to probe, and the
\* checker runs
C28_FailedProbeRecorded ==
    /\ checker.running
    /\ checker.pc = "probing"
    /\ checker.rounds = 1
    /\ \E n \in ServiceNames :
          /\ n \in DOMAIN checker.results
          /\ ~checker.results[n].last_ping_success
          /\ n \notin checker.todo
          /\ n \in DOMAIN services
          /\ checker.todo # {}

-----------------------------------------------------------------------------
(* Properties of the status of a task *)

\* C29: whatever the status of a task, for every one of the eight statuses a
\* registered agent can request it, the request is answered 200 and the task then
\* has the requested status; no such request ends otherwise.
C29_AnyStatusFollowsAny ==
    \A t \in DOMAIN tasks, a \in RegisteredIds, st \in TaskStatus :
       now < MaxTime =>
          /\ ENABLED (/\ UpdateTaskStatus(t, st, NoText, a)
                      /\ resp'.code = 200
                      /\ tasks'[t].status = st)
          /\ ~ENABLED (/\ UpdateTaskStatus(t, st, NoText, a)
                       /\ ~(resp'.code = 200 /\ tasks'[t].status = st))

\* C29 witness: a task that was committed is back in the status created, and
\* before that its status was updated to the one it already had
C29_CommittedReopened ==
    /\ resp.op = "update_task_status"
    /\ resp.code = 200
    /\ tasks[resp.id].status = "created"
    /\ LET rows == RowsOf(changelog, resp.id)
       IN  /\ Len(rows) >= 3
           /\ rows[Len(rows)].old_status = "committed"
           /\ rows[Len(rows)].new_status = "created"
           /\ rows[Len(rows) - 1].old_status = "committed"
           /\ rows[Len(rows) - 1].new_status = "committed"

\* C30: add_task_comment on a task that exists answers 200, changes of that task
\* only the notes, which begin with the notes it had, and updated_at, which
\* becomes the instant of the request; it leaves every other task and the
\* Changelog as they were, removes no mention and adds mentions only of registered
\* agents, for that task.  On a task id that does not
\* exist it answers 404 and leaves tasks, Changelog and mentions as they were.
C30_CommentKeepsStatusAndLock ==
    [][(resp'.op = "add_task_comment" /\ now' # now) =>
          LET t == resp'.id
          IN  /\ changelog' = changelog
              /\ mentions \subseteq mentions'
              /\ \A m \in mentions' \ mentions :
                    /\ m.task_id = t
                    /\ m.mentioned_agent_id \in RegisteredIds
              /\ IF t \in DOMAIN tasks
                 THEN /\ resp'.code = 200
                      /\ DOMAIN tasks' = DOMAIN tasks
                      /\ \A u \in DOMAIN tasks \ {t} : tasks'[u] = tasks[u]
                      /\ tasks'[t] = [tasks[t] EXCEPT !.notes = tasks'[t].notes,
                                                      !.updated_at = now]
                      /\ StartsWith(tasks'[t].notes, tasks[t].notes)
                      /\ Len(tasks'[t].notes) > Len(tasks[t].notes)
                 ELSE /\ resp'.code = 404
                      /\ tasks' = tasks
                      /\ mentions' = mentions
      ]_vars

\* C30 witness: a comment with a registered handle was added to a task that is
\* locked and under work, and the task is still locked and under work
C30_CommentOnLockedTask ==
    /\ resp.op = "add_task_comment"
    /\ resp.code = 200
    /\ tasks[resp.id].status = "under_work"
    /\ tasks[resp.id].locked_by_id # None
    /\ tasks[resp.id].notes # NoText
    /\ \E m \in mentions : m.task_id = resp.id

-----------------------------------------------------------------------------
(* Properties of the response of update_task_status and of next-task selection *)

\* C31: in the response of a successful update_task_status, next_task is absent
\* exactly when, after the update, no task in status created has the role and the
\* level of the acting agent, and otherwise it is the oldest such task; the
\* workflow fields are "continue", true and "high" when next_task is present and
\* "no_tasks", false and "low" when it is absent.
C31_HintFollowsNextTask ==
    [][(resp'.op = "update_task_status" /\ resp'.code = 200 /\ now' # now) =>
          LET a == agents[FindAgent(resp'.agent_id)]
              q == {t \in DOMAIN tasks' : /\ tasks'[t].status = "created"
                                          /\ tasks'[t].target_role = a.role
                                          /\ tasks'[t].difficulty = a.level}
              n == resp'.next_task
          IN  /\ n = None <=> q = {}
              /\ n # None =>
                    /\ n \in q
                    /\ \A u \in q : tasks'[n].created_at <= tasks'[u].created_at
              /\ IF n # None
                 THEN /\ resp'.workflow_status = "continue"
                      /\ resp'.auto_continue = TRUE
                      /\ resp'.session_momentum = "high"
                 ELSE /\ resp'.workflow_status = "no_tasks"
                      /\ resp'.auto_continue = FALSE
                      /\ resp'.session_momentum = "low"
      ]_vars

\* C31 witness: an agent put a task back to created and was offered that very
\* task as next_task, with the hint to continue
C31_OfferedTheTaskPutBack ==
    /\ resp.op = "update_task_status"
    /\ resp.code = 200
    /\ resp.next_task = resp.id
    /\ resp.workflow_status = "continue"
    /\ LastChange.task_id = resp.id
    /\ LastChange.old_status # "created"
    /\ LastChange.new_status = "created"

-----------------------------------------------------------------------------
(* Properties of the command-line client *)

\* The misuses validate_args is written for: an option is missing from the
\* command line, or the action under tasks is "list"
GuardedMisuse(argv) ==
    \/ argv.command = Some("tasks") /\ argv.task_action = Some("list")
    \/ /\ argv.command = Some("tasks") /\ argv.task_action = Some("next")
       /\ (argv.role = Absent \/ argv.level = Absent)
    \/ /\ argv.command = Some("tasks") /\ argv.task_action = Some("status")
       /\ (argv.status = Absent \/ argv.agent_id = Absent)
    \/ /\ argv.command = Some("changes")
       /\ (argv.since = Absent \/ argv.agent_id = Absent)

\* C32: a run of the client on a guarded misuse (tasks list; tasks next without
\* role or level; tasks status without status or agent id; changes without since
\* or agent id) ends in the client's own validation: the corrective message is
\* what it prints, the exit code is 1, and no HTTP request was sent.
C32_MisuseEndsInValidation ==
    (cli.pc = "exited" /\ GuardedMisuse(cli.argv)) =>
        /\ cli.out = <<"corrective">>
        /\ cli.exit = Some(1)
        /\ cli.sent = 0

\* C34: a run of the client sends at most one HTTP request, and exactly one once
\* an operation was dispatched; when the request got a status that is not a
\* success or failed in transport, the client has printed an error and nothing
\* else, its exit code is 1, and that one request is the only one it sent.
C34_OneRequestNeverRetried ==
    /\ cli.sent <= 1
    /\ cli.pc = "requesting" => cli.sent = 1
    /\ cli.answer # "none" => cli.sent = 1 /\ cli.pc = "exited"
    /\ cli.answer \in {"http_error", "transport_error"} =>
          /\ cli.out = <<"error">>
          /\ cli.exit = Some(1)

\* C34 witness: the server could not be reached; the client sent its one request,
\* printed the error and exited with 1
C34_UnreachableServerEndsTheRun ==
    /\ cli.pc = "exited"
    /\ cli.answer = "transport_error"
    /\ Operation(cli.argv) = "update_task_status"
    /\ cli.sent = 1
    /\ cli.out = <<"error">>
    /\ cli.exit = Some(1)

-----------------------------------------------------------------------------
(* Properties of the Mention table *)

\* C33: every Mention row has exactly one of document_id and task_id set, and the
\* document or the task it names exists; so once delete_document or delete_task
\* has removed a row, no Mention naming it is left.
C33_MentionsHaveOneLivingOwner ==
    /\ \A m \in mentions :
          /\ (m.document_id = None) # (m.task_id = None)
          /\ m.document_id # None => m.document_id \in DOMAIN documents
          /\ m.task_id # None => m.task_id \in DOMAIN tasks
    /\ (resp.op = "delete_document" /\ resp.code = 200) =>
          \A m \in mentions : m.document_id # resp.id
    /\ (resp.op = "delete_task" /\ resp.code = 200) =>
          \A m \in mentions : m.task_id # resp.id

\* C33 witness: the first request created document 1 with a mention, the second
\* deleted the document, and the Mention table is empty again
C33_DocumentDeletedWithItsMention ==
    /\ resp.op = "delete_document"
    /\ resp.code = 200
    /\ resp.id = 1
    /\ now = 6
    /\ nextId.document = 2
    /\ nextId.mention = 2
    /\ mentions = {}

-----------------------------------------------------------------------------
(* Properties of the ownership of a service *)

\* C36: register_service on the name of a service another agent owns answers 200
\* and makes the caller the owner; a heartbeat or an unregistration by an agent
\* that is not the stored owner (the previous owner after such a registration) is
\* answered 403 and changes nothing, and the unregistration by the stored owner
\* (the new one) answers 200 and removes the service.
C36_RegistrationTakesOwnership ==
    [][now' # now =>
          LET n == resp'.name
              a == resp'.agent_id
              owned == n \in DOMAIN services
          IN  /\ (resp'.op = "register_service" /\ owned
                    /\ services[n].owner_agent_id # a) =>
                    /\ resp'.code = 200
                    /\ services'[n].owner_agent_id = a
                    /\ services'[n].owner_agent_id # services[n].owner_agent_id
              /\ (resp'.op \in {"service_heartbeat", "unregister_service"} /\ owned
                    /\ services[n].owner_agent_id # a) =>
                    /\ resp'.code = 403
                    /\ services' = services
              /\ (resp'.op = "unregister_service" /\ owned
                    /\ services[n].owner_agent_id = a) =>
                    /\ resp'.code = 200
                    /\ n \notin DOMAIN services'
      ]_vars

\* C36 witness: s1 was registered, zz registered it again as "starting" at the
\* instant 5 and owns it, and the heartbeat of a1 that followed was answered 403
C36_PreviousOwnerRefused ==
    /\ resp.op = "service_heartbeat"
    /\ resp.code = 403
    /\ resp.name = "s1"
    /\ resp.agent_id = "a1"
    /\ now = 7
    /\ DOMAIN services = {"s1"}
    /\ services["s1"].owner_agent_id = "zz"
    /\ services["s1"].status = "starting"
    /\ services["s1"].last_heartbeat = 5

-----------------------------------------------------------------------------
(* Properties of the lock under update_task_status *)

\* C38: a successful update_task_status leaves locked_by_id null when the status
\* before the call was under_work and the new one is not, and leaves it exactly
\* as it was in every other case: it never makes an agent the holder.
C38_UpdateNeverAssignsHolder ==
    [][(resp'.op = "update_task_status" /\ resp'.code = 200 /\ now' # now) =>
          LET t == resp'.id
          IN  tasks'[t].locked_by_id =
                 IF tasks[t].status = "under_work" /\ tasks'[t].status # "under_work"
                 THEN None
                 ELSE tasks[t].locked_by_id
      ]_vars

\* C38 witness: a task locked while created was moved to dev_done directly and
\* still has its holder
C38_LockSurvivesDirectMove ==
    /\ resp.op = "update_task_status"
    /\ resp.code = 200
    /\ LastChange.task_id = resp.id
    /\ LastChange.old_status = "created"
    /\ LastChange.new_status = "dev_done"
    /\ resp.id \in DOMAIN tasks
    /\ tasks[resp.id].status = "dev_done"
    /\ tasks[resp.id].locked_by_id # None

-----------------------------------------------------------------------------
(* Properties of next-task selection as a read *)

-----------------------------------------------------------------------------
(* Properties of concurrent requests on one row *)

\* C35: however register_service calls for one service_name interleave, every
\* call that has ended has succeeded, and the name it registered is in the
\* registry (under its one row).
C35_ConcurrentRegistrationsSucceed ==
    \A a \in AgentIds :
        reqs[a].pc = "done" =>
            /\ reqs[a].code = 200
            /\ reqs[a].service_name \in DOMAIN services


\* C37 as stated: for every task the Changelog rows, in the order of their
\* commits, form a chain (the old_status of a row is the new_status of the row
\* before it) and the new_status of the last row is the stored status.
C37_ChangelogChainsUnderConcurrency ==
    \A t \in DOMAIN tasks :
        LET rows == RowsOf(changelog, t)
        IN  /\ \A i \in 2..Len(rows) : rows[i].old_status = rows[i - 1].new_status
            /\ Len(rows) > 0 => rows[Len(rows)].new_status = tasks[t].status

\* C37: the commit of an update_task_status adds one Changelog row whose
\* old_status is the status the request read and whose new_status is the status
\* it asked for; the stored status becomes the one asked for when that differs
\* from the one that was read, and stays what the database holds otherwise.
C37_RowsTellWhatEachRequestRead ==
    [][(resp'.op = "update_task_status" /\ resp'.code = 200 /\ now' # now) =>
          LET r == reqs[resp'.agent_id]
              t == resp'.id
          IN  /\ Len(changelog') = Len(changelog) + 1
              /\ LastChange'.task_id = t
              /\ LastChange'.old_status = r.seen.status
              /\ LastChange'.new_status = r.status
              /\ tasks'[t].status =
                    IF r.status # r.seen.status THEN r.status ELSE tasks[t].status
      ]_vars

\* C37 witness: two updates of task 1 read it in status created before either
\* committed; the row of the second commit does not continue the row of the first
C37_ChainBroken ==
    \E i \in 1..(Len(changelog) - 1) :
        /\ changelog[i].task_id = 1
        /\ changelog[i + 1].task_id = 1
        /\ changelog[i].old_status = "created"
        /\ changelog[i].new_status = "dev_done"
        /\ changelog[i + 1].old_status = "created"
        /\ changelog[i + 1].new_status = "under_work"
        /\ tasks[1].status = "under_work"

====
